---- MODULE Spec2Model ----
(***************************************************************************)
(* Model of the K League "Ignobel" statistics pipeline:                    *)
(*   zone binning          open_track2/src/feature_engineering.py          *)
(*   clearance panic       kleague_ignobel/src/aggregate.py                *)
(*   player aggregation    kleague_ignobel/src/aggregate.py                *)
(*   metrics and ranking   kleague_ignobel_old/src/awards_engine.py        *)
(*                                                                         *)
(* Every stage is a pure function on tables.  Each stage has its own       *)
(* specification whose Init draws the input table from a bounded set and   *)
(* whose actions apply the stage.                                          *)
(*                                                                         *)
(* Number representation.  Coordinates are integers in hundredths of a     *)
(* metre (26.25 m is 2625).  Table cells that pandas holds as floats are   *)
(* fractions <<n, d>> in lowest terms; <<0, 0>> is NaN.                    *)
(***************************************************************************)
EXTENDS Integers, Sequences, FiniteSets, TLC

VARIABLES
    pc,               \* position of the run inside the stage under study
    zone_in,          \* events frame handed to add_zone_columns
    zone_out,         \* frame returned by add_zone_columns
    events,           \* preprocessed event log (sorted by game, period, time, action)
    panic_m,          \* calculate_clearance_panic: its concatenated merge frame m
    clearance_panic,  \* table returned by calculate_clearance_panic
    player_stats,     \* table returned by aggregate_player_stats
    stats,            \* table returned by calculate_metrics
    award_configs,    \* award configuration handed to compute_award_scores
    award_scores,     \* table returned by compute_award_scores
    raw,                  \* raw event log handed to preprocess_events
    preprocessed,         \* frame returned by preprocess_events(raw)
    preprocessed_again,   \* frame returned by preprocess_events(preprocessed)
    zone_fallback,        \* frame returned by the fallback add_zone_columns
    zone_impl,            \* which add_zone_columns the pattern script imported
    events_with_zones,    \* pattern script: zoned events after the notna filter
    team_zone_df,         \* pattern script: team zone profile
    player_zone_activity, \* pattern script: player zone activity
    league_avg,           \* pattern script: league zone average
    second_half_drop,     \* table returned by calculate_second_half_drop
    panic_cols,           \* columns of the table returned by calculate_clearance_panic
    award_cols,           \* columns of the table returned by compute_award_scores
    leaderboard,          \* build script: the leaderboard frame
    saved,                \* build script: artifacts written by save_artifact
    run,                  \* build run: script, steps completed, whether a step raised
    disk,                 \* build run: state of each artifact file in the artifacts directory
    def_third_turnover,   \* table returned by calculate_def_third_turnover
    attack_stats,         \* table returned by aggregate_attack_stats
    possession_in,        \* events handed to extract_possessions
    possession_out        \* frame returned by extract_possessions

vars == <<pc, zone_in, zone_out, events, panic_m, clearance_panic, player_stats,
          stats, award_configs, award_scores, raw, preprocessed, preprocessed_again,
          zone_fallback, zone_impl, events_with_zones, team_zone_df,
          player_zone_activity, league_avg, second_half_drop, panic_cols, award_cols,
          leaderboard, saved,
          run,
          disk,
          def_third_turnover,
          attack_stats,
          possession_in,
          possession_out>>

\* Value of a table variable that the stage under study never touches.
NoTable == <<>>

(***************************************************************************)
(* Zone binner: add_zone_columns                                           *)
(***************************************************************************)

\* x_bins default [0, 26.25, 52.5, 78.75, 105], in hundredths.
XBins == <<0, 2625, 5250, 7875, 10500>>

\* y_bins default [0, 22.67, 45.33, 68], in hundredths.
YBins == <<0, 2267, 4533, 6800>>

XLabels == <<"D", "DM", "AM", "A">>

YLabels == <<"L", "C", "R">>

\* A coordinate cell: a number, or missing (NaN).
Coord(v) == [isna |-> FALSE, v |-> v]

MissingCoord == [isna |-> TRUE, v |-> 0]

\* numpy searchsorted: the insertion index of x in the sorted sequence bins.
\* side "right": number of edges <= x; side "left": number of edges < x.
SearchSorted(bins, x, side) ==
    IF side = "right"
    THEN Cardinality({i \in 1..Len(bins) : bins[i] <= x})
    ELSE Cardinality({i \in 1..Len(bins) : bins[i] < x})

\* Category code that pd.cut gives when the value falls in no bin.
NACategory == "<NA>"

\* pd.cut(x, bins, labels, right, include_lowest) on one cell.
PdCut(c, bins, labels, right, include_lowest) ==
    LET side == IF right THEN "left" ELSE "right"
        found == SearchSorted(bins, c.v, side)
        ids == IF include_lowest /\ c.v = bins[1] THEN 1 ELSE found
        na == c.isna \/ ids = Len(bins) \/ ids = 0
    IN  IF na THEN NACategory ELSE labels[ids]

\* Series.astype(str) on a categorical cell: a missing category becomes "nan".
AsTypeStr(cat) == IF cat = NACategory THEN "nan" ELSE cat

ZoneXRightClosed(c) == AsTypeStr(PdCut(c, XBins, XLabels, TRUE, TRUE))

\* df["zone_x"] = pd.cut(df[x_col], bins=x_bins, labels=x_labels,
\*                       include_lowest=True, right=False).astype(str)
ZoneX(c) == AsTypeStr(PdCut(c, XBins, XLabels, FALSE, TRUE))

ZoneYRightClosed(c) == AsTypeStr(PdCut(c, YBins, YLabels, TRUE, TRUE))

\* df["zone_y"] = pd.cut(df[y_col], bins=y_bins, labels=y_labels,
\*                       include_lowest=True, right=False).astype(str)
ZoneY(c) == AsTypeStr(PdCut(c, YBins, YLabels, FALSE, TRUE))

\* add_zone_columns on one row: zone = zone_x + "-" + zone_y.
ZoneRow(r) ==
    [start_x |-> r.start_x, start_y |-> r.start_y,
     zone_x |-> ZoneX(r.start_x), zone_y |-> ZoneY(r.start_y),
     zone |-> ZoneX(r.start_x) \o "-" \o ZoneY(r.start_y)]

\* add_zone_columns on a frame: the three columns are computed row by row.
add_zone_columns(frame) == [i \in 1..Len(frame) |-> ZoneRow(frame[i])]

\* The 12 zone labels.
ValidZones ==
    {XLabels[i] \o "-" \o YLabels[j] : i \in 1..Len(XLabels), j \in 1..Len(YLabels)}

\* x coordinates tried: both pitch edges, every interior edge and its two
\* neighbours, a value inside each band, one value on each side outside the
\* pitch, and a missing value.
XCoords ==
    {Coord(v) : v \in {-1, 0, 1, 2624, 2625, 2626, 5249, 5250, 5251,
                       7874, 7875, 7876, 10499, 10500, 10501}}
    \cup {MissingCoord}

YCoords ==
    {Coord(v) : v \in {-1, 0, 1, 2266, 2267, 2268, 4532, 4533, 4534,
                       6799, 6800, 6801}}
    \cup {MissingCoord}

InitZone ==
    /\ pc = "zone_start"
    /\ zone_in \in {<<[start_x |-> x, start_y |-> y]>> : x \in XCoords, y \in YCoords}
    /\ zone_out = NoTable
    /\ events = NoTable
    /\ panic_m = NoTable
    /\ clearance_panic = NoTable
    /\ player_stats = NoTable
    /\ stats = NoTable
    /\ award_configs = NoTable
    /\ award_scores = NoTable
    /\ raw = NoTable
    /\ preprocessed = NoTable
    /\ preprocessed_again = NoTable
    /\ zone_fallback = NoTable
    /\ zone_impl = NoTable
    /\ events_with_zones = NoTable
    /\ team_zone_df = NoTable
    /\ player_zone_activity = NoTable
    /\ league_avg = NoTable
    /\ second_half_drop = NoTable
    /\ panic_cols = NoTable
    /\ award_cols = NoTable
    /\ leaderboard = NoTable
    /\ saved = NoTable
    /\ possession_out = NoTable
    /\ possession_in = NoTable
    /\ attack_stats = NoTable
    /\ def_third_turnover = NoTable
    /\ disk = NoTable
    /\ run = NoTable

AddZoneColumns ==
    /\ pc = "zone_start"
    /\ zone_out' = add_zone_columns(zone_in)
    /\ pc' = "zone_done"
    /\ UNCHANGED <<zone_in, events, panic_m, clearance_panic, player_stats, stats,
                   award_configs, award_scores,
                   raw, preprocessed, preprocessed_again, zone_fallback, zone_impl,
                   events_with_zones, team_zone_df, player_zone_activity, league_avg,
                   second_half_drop, panic_cols, award_cols, leaderboard, saved,
                   run,
                   disk,
                   def_third_turnover,
                   attack_stats,
                   possession_in,
                   possession_out>>

NextZone == AddZoneColumns

SpecZone == InitZone /\ [][NextZone]_vars

\* A row whose coordinates lie on the pitch, upper edges included.
OnPitch(r) ==
    /\ ~r.start_x.isna /\ 0 <= r.start_x.v /\ r.start_x.v <= XBins[Len(XBins)]
    /\ ~r.start_y.isna /\ 0 <= r.start_y.v /\ r.start_y.v <= YBins[Len(YBins)]

\* C9: every coordinate pair with 0 <= x <= 105 and 0 <= y <= 68, the upper
\* edges x = 105 and y = 68 included, gets one of the 12 zone labels.
C9_ClosedRangeGetsZone ==
    pc = "zone_done" =>
        \A i \in 1..Len(zone_out) : OnPitch(zone_out[i]) => zone_out[i].zone \in ValidZones

\* The band of v in a half-open partition: the i with bins[i] <= v < bins[i+1].
BandsOf(v, bins) == {i \in 1..(Len(bins) - 1) : bins[i] <= v /\ v < bins[i + 1]}

MaxEvents == 3

\* Missing cell (NaN) of an integer-valued column; real ids, teams and times
\* are >= 0.
NA == -1

\* preprocess_events sorts by (game_id, period_id, time_seconds, action_id).
KeyLeq(a, b) ==
    \/ a.game_id < b.game_id
    \/ /\ a.game_id = b.game_id
       /\ \/ a.period_id < b.period_id
          \/ a.period_id = b.period_id /\ a.time_seconds <= b.time_seconds

\* A log is sorted as preprocess_events leaves it (action_id, the last sort
\* key, is added by WithActionIds and rises along the log).
IsSorted(log) == \A i \in 1..(Len(log) - 1) : KeyLeq(log[i], log[i + 1])

\* CARD_SET of the configuration.
CARD_SET == {"Yellow_Card", "Second_Yellow_Card", "Direct_Red_Card"}

\* FOUL_TYPES of the configuration.
FOUL_TYPES == {"Foul", "Handball_Foul", "Hit"}

\* DEF_ACTIONS of the configuration.
DEF_ACTIONS ==
    {"Tackle", "Duel", "Foul", "Interception", "Block", "Clearance",
     "Intervention", "Error", "Aerial Clearance"}

\* The log after preprocess_events: action_id is unique and rises along the
\* sorted log, and the derived flags is_fail and is_card are added.  The
\* flag in_def_third (start_x <= 35) is drawn with the event.
WithActionIds(log) ==
    [i \in 1..Len(log) |->
        [game_id |-> log[i].game_id, period_id |-> log[i].period_id,
         time_seconds |-> log[i].time_seconds, action_id |-> i,
         type_name |-> log[i].type_name, result_name |-> log[i].result_name,
         is_fail |-> log[i].result_name = "Unsuccessful",
         is_card |-> log[i].result_name \in CARD_SET,
         in_def_third |-> log[i].in_def_third,
         player_id |-> log[i].player_id, player_name_ko |-> log[i].player_name_ko,
         team_id |-> log[i].team_id, team_name_ko |-> log[i].team_name_ko]]

\* log is a preprocessed log of at most MaxEvents events drawn from E.
IsLogOver(log, E) ==
    \E n \in 0..MaxEvents : \E l \in [1..n -> E] : IsSorted(l) /\ log = WithActionIds(l)

\* One event before it is given its action_id.
Event(gp, t, play) ==
    [game_id |-> gp[1], period_id |-> gp[2], time_seconds |-> t,
     type_name |-> play.type_name, result_name |-> play.result_name,
     in_def_third |-> play.in_def_third,
     player_id |-> play.player_id, player_name_ko |-> play.player_name_ko,
     team_id |-> play.team_id, team_name_ko |-> play.team_name_ko]

Play(type, result, third, pid, pname, tid, tname) ==
    [type_name |-> type, result_name |-> result, in_def_third |-> third,
     player_id |-> pid, player_name_ko |-> pname, team_id |-> tid, team_name_ko |-> tname]

(***************************************************************************)
(* Temporal correlator: calculate_clearance_panic                          *)
(***************************************************************************)

IsClearance(e) == e.type_name \in {"Clearance", "Aerial Clearance"}

IsShot(e) == e.type_name = "Shot"

\* clr = df[df["type_name"].isin(["Clearance", "Aerial Clearance"])]
ClrIdx(df) == {i \in 1..Len(df) : IsClearance(df[i])}

\* shots = df[df["type_name"] == "Shot"]
ShotIdx(df) == {i \in 1..Len(df) : IsShot(df[i])}

\* shots_group = shots[(game_id == game_id) & (period_id == period_id)]
ShotsGroup(df, g) ==
    {j \in ShotIdx(df) : df[j].game_id = g[1] /\ df[j].period_id = g[2]}

\* shots_group.sort_values("time_seconds"): the default sort is not stable, so
\* shots with the same time may come out in any order.  An order is a ranking
\* of the shots that respects time.
SortOrders(df) ==
    {f \in [ShotIdx(df) -> 1..Cardinality(ShotIdx(df))] :
        /\ \A a, b \in ShotIdx(df) : a # b => f[a] # f[b]
        /\ \A a, b \in ShotIdx(df) :
              df[a].time_seconds < df[b].time_seconds => f[a] < f[b]}

\* merge_asof(direction="forward", allow_exact_matches=True): the first row of
\* the sorted right frame whose key is >= the left key; 0 when there is none.
AsofForward(df, i, right, ord) ==
    LET cand == {j \in right : df[j].time_seconds >= df[i].time_seconds}
    IN  IF cand = {} THEN 0
        ELSE CHOOSE j \in cand : \A k \in cand : ord[j] <= ord[k]

\* One row of pd.merge_asof(clr_group, shots_group, on="time_seconds",
\* suffixes=("_clr", "_shot")): the key column keeps its name and holds the
\* left (clearance) time; every other column is in both frames and gets a
\* suffix; the right columns are missing when no shot matched.
MergeRow(df, i, j) ==
    [time_seconds |-> df[i].time_seconds,
     game_id_clr |-> df[i].game_id, period_id_clr |-> df[i].period_id,
     action_id_clr |-> df[i].action_id,
     player_id_clr |-> df[i].player_id, player_name_ko_clr |-> df[i].player_name_ko,
     team_id_clr |-> df[i].team_id, team_name_ko_clr |-> df[i].team_name_ko,
     game_id_shot |-> IF j = 0 THEN NA ELSE df[j].game_id,
     period_id_shot |-> IF j = 0 THEN NA ELSE df[j].period_id,
     action_id_shot |-> IF j = 0 THEN NA ELSE df[j].action_id,
     player_id_shot |-> IF j = 0 THEN NA ELSE df[j].player_id,
     team_id_shot |-> IF j = 0 THEN NA ELSE df[j].team_id]

\* Column lookups of lines 158-160 and 178: the suffixed name when the merge
\* frame has it, the plain name otherwise.
ColOr(row, suffixed, plain) == IF suffixed \in DOMAIN row THEN suffixed ELSE plain

\* m["time_diff"] = m[time_col_shot] - m[time_col_clr]
TimeDiff(row) ==
    row[ColOr(row, "time_seconds_shot", "time_seconds")]
        - row[ColOr(row, "time_seconds_clr", "time_seconds")]

ShotWithin10sAnyTeam(row) ==
    /\ TimeDiff(row) <= 10
    /\ TimeDiff(row) >= 0

\* m["shot_within_10s"] = (time_diff <= 10) & (time_diff >= 0)
\*                        & (m[team_id_shot_col] != m[team_id_clr_col])
ShotWithin10s(row) ==
    /\ TimeDiff(row) <= 10
    /\ TimeDiff(row) >= 0
    /\ row[ColOr(row, "team_id_shot", "team_id")] # row[ColOr(row, "team_id_clr", "team_id")]

\* m.dropna(subset=[time_col_shot, team_col])
DropNa(rows) ==
    {r \in rows : /\ r[ColOr(r, "time_seconds_shot", "time_seconds")] # NA
                  /\ r[ColOr(r, "team_id_shot", "team_id")] # NA}

\* The loop body without the "no shots: continue" and without the dropna: a
\* group without shots would then contribute its unmatched clearances.
PanicGroupRowsNoSkip(df, g, ord) ==
    LET clr_group == {i \in ClrIdx(df) : df[i].game_id = g[1] /\ df[i].period_id = g[2]}
        shots_group == ShotsGroup(df, g)
    IN  {[row |-> MergeRow(df, i, AsofForward(df, i, shots_group, ord)),
          shot_within_10s |-> FALSE] : i \in clr_group}

\* The body of the loop for one (game_id, period_id) group of clearances: the
\* rows appended to results (none when the group has no shots or no row
\* survives dropna).
PanicGroupRows(df, g, ord) ==
    LET clr_group == {i \in ClrIdx(df) : df[i].game_id = g[1] /\ df[i].period_id = g[2]}
        shots_group == ShotsGroup(df, g)
        m == DropNa({MergeRow(df, i, AsofForward(df, i, shots_group, ord)) : i \in clr_group})
    IN  IF shots_group = {} THEN {}
        ELSE {[row |-> r, shot_within_10s |-> ShotWithin10s(r)] : r \in m}

GameAndPeriod(df, i) == <<df[i].game_id, df[i].period_id>>

\* A merge that pairs a clearance with every shot of its group at or after it
\* instead of the first one: tied shots would count the clearance twice.
PanicMergeEveryShot(df, ord) ==
    UNION {{[row |-> MergeRow(df, i, j),
             shot_within_10s |-> ShotWithin10s(MergeRow(df, i, j))] :
               j \in {s \in ShotIdx(df) : /\ GameAndPeriod(df, s) = GameAndPeriod(df, i)
                                          /\ df[s].time_seconds >= df[i].time_seconds}} :
           i \in ClrIdx(df)}

\* m = pd.concat(results): the rows of every group; empty on the early returns.
PanicMerge(df, ord) ==
    IF ClrIdx(df) = {} \/ ShotIdx(df) = {} THEN {}
    ELSE UNION {PanicGroupRows(df, g, ord) :
                  g \in {<<df[i].game_id, df[i].period_id>> : i \in ClrIdx(df)}}

\* score = m.groupby([player_id_clr, player_name_ko_clr, team_name_ko_clr]).agg(
\*     clearance=("action_id_clr", "count"), concede_shot10=("shot_within_10s", "sum"))
PanicScore(m) ==
    LET key(x) == <<x.row.player_id_clr, x.row.player_name_ko_clr, x.row.team_name_ko_clr>>
    IN  {[player_id |-> k[1], player_name_ko |-> k[2], team_name_ko |-> k[3],
          clearance |-> Cardinality({x \in m : key(x) = k}),
          concede_shot10 |-> Cardinality({x \in m : key(x) = k /\ x.shot_within_10s})] :
            k \in {key(x) : x \in m}}

\* pd.DataFrame(columns=[...]) of the three early returns (lines 134, 191, 196).
EmptyPanicColumns ==
    <<"player_id", "player_name_ko", "team_name_ko", "clearance", "concede_shot10">>

\* score.columns = [...] (line 204)
ScoreColumns ==
    <<"player_id", "player_name_ko", "team_name_ko", "clearance", "concede_shot10">>

\* The columns of the table calculate_clearance_panic returns: the empty frame
\* when there are no clearances, no shots or no merge rows, the renamed score
\* otherwise.
clearance_panic_columns(df, m) ==
    IF ClrIdx(df) = {} \/ ShotIdx(df) = {} \/ m = {} THEN EmptyPanicColumns
    ELSE ScoreColumns

GamePeriods == {<<1, 1>>, <<1, 2>>}

PanicTimes == {0, 10, 11}

PanicPlays ==
    {Play("Clearance", "Successful", TRUE, 1, "Kim", 1, "Ulsan"),
     Play("Aerial Clearance", "Successful", TRUE, 1, "Kim", 1, "Ulsan"),
     Play("Clearance", "Successful", TRUE, 2, "Lee", 2, "Jeonbuk"),
     Play("Shot", "On Target", FALSE, 1, "Kim", 1, "Ulsan"),
     Play("Shot", "Goal", FALSE, 2, "Lee", 2, "Jeonbuk"),
     Play("Pass", "Successful", FALSE, 2, "Lee", 2, "Jeonbuk")}

PanicEvents == {Event(gp, t, p) : gp \in GamePeriods, t \in PanicTimes, p \in PanicPlays}

InitPanic ==
    /\ pc = "panic_start"
    /\ IsLogOver(events, PanicEvents)
    /\ panic_m = NoTable
    /\ clearance_panic = NoTable
    /\ zone_in = NoTable
    /\ zone_out = NoTable
    /\ player_stats = NoTable
    /\ stats = NoTable
    /\ award_configs = NoTable
    /\ award_scores = NoTable
    /\ raw = NoTable
    /\ preprocessed = NoTable
    /\ preprocessed_again = NoTable
    /\ zone_fallback = NoTable
    /\ zone_impl = NoTable
    /\ events_with_zones = NoTable
    /\ team_zone_df = NoTable
    /\ player_zone_activity = NoTable
    /\ league_avg = NoTable
    /\ second_half_drop = NoTable
    /\ panic_cols = NoTable
    /\ award_cols = NoTable
    /\ leaderboard = NoTable
    /\ saved = NoTable
    /\ possession_out = NoTable
    /\ possession_in = NoTable
    /\ attack_stats = NoTable
    /\ def_third_turnover = NoTable
    /\ disk = NoTable
    /\ run = NoTable

CalculateClearancePanic ==
    /\ pc = "panic_start"
    /\ \E ord \in SortOrders(events) :
          /\ panic_m' = PanicMerge(events, ord)
          /\ clearance_panic' = PanicScore(PanicMerge(events, ord))
          /\ panic_cols' = clearance_panic_columns(events, PanicMerge(events, ord))
    /\ pc' = "panic_done"
    /\ UNCHANGED <<zone_in, zone_out, events, player_stats, stats, award_configs,
                   award_scores,
                   raw, preprocessed, preprocessed_again, zone_fallback, zone_impl,
                   events_with_zones, team_zone_df, player_zone_activity, league_avg,
                   second_half_drop, award_cols, leaderboard, saved,
                   run,
                   disk,
                   def_third_turnover,
                   attack_stats,
                   possession_in,
                   possession_out>>

NextPanic == CalculateClearancePanic

SpecPanic == InitPanic /\ [][NextPanic]_vars

\* The shots of clearance c's game and period taken 0..10 seconds after it.
ShotsInWindow(df, c) ==
    {j \in ShotIdx(df) :
        /\ df[j].game_id = df[c].game_id /\ df[j].period_id = df[c].period_id
        /\ 0 <= df[j].time_seconds - df[c].time_seconds
        /\ df[j].time_seconds - df[c].time_seconds <= 10}

\* Clearance c is counted in concede_shot10: its merge row is flagged.
Conceded(c) ==
    \E x \in panic_m : x.row.action_id_clr = events[c].action_id /\ x.shot_within_10s

\* The concede_shot10 cell of the clearing player of clearance c (0 when the
\* player has no row).
ConcedeCount(c) ==
    LET rows == {r \in clearance_panic :
                    /\ r.player_id = events[c].player_id
                    /\ r.player_name_ko = events[c].player_name_ko
                    /\ r.team_name_ko = events[c].team_name_ko}
    IN  IF rows = {} THEN 0 ELSE (CHOOSE r \in rows : TRUE).concede_shot10

\* C1: a clearance with an opposing-team shot 0..10 seconds after it in the
\* same game and period is counted in its player's concede_shot10.
C1_OpposingShotInWindowCounts ==
    pc = "panic_done" =>
        \A c \in ClrIdx(events) :
            (\E j \in ShotsInWindow(events, c) : events[j].team_id # events[c].team_id)
                => Conceded(c) /\ ConcedeCount(c) >= 1

\* C2: a clearance whose game and period has shots, all of them more than 10
\* seconds after it, adds nothing to concede_shot10.
C2_LateShotAddsNothing ==
    pc = "panic_done" =>
        \A c \in ClrIdx(events) :
            LET g == ShotsGroup(events, <<events[c].game_id, events[c].period_id>>)
            IN  (g # {} /\ \A j \in g : events[j].time_seconds - events[c].time_seconds > 10)
                    => ~Conceded(c)

\* C3: a clearance is never counted on account of a shot of the clearing
\* player's own team: every counted clearance was matched to a shot of another
\* team, and a clearance whose shots 0..10 seconds after it are all by its own
\* team is not counted.
C3_SameTeamShotNeverCounts ==
    pc = "panic_done" =>
        /\ \A x \in panic_m : x.shot_within_10s => x.row.team_id_shot # x.row.team_id_clr
        /\ \A c \in ClrIdx(events) :
              (/\ ShotsInWindow(events, c) # {}
               /\ \A j \in ShotsInWindow(events, c) : events[j].team_id = events[c].team_id)
                  => ~Conceded(c)

\* C3 witness: a clearance followed within 10 seconds only by a shot of its own
\* team went through the merge and was not counted.
C3_Witness ==
    /\ pc = "panic_done"
    /\ \E c \in ClrIdx(events) :
          /\ ShotsInWindow(events, c) # {}
          /\ \A j \in ShotsInWindow(events, c) : events[j].team_id = events[c].team_id
          /\ \E x \in panic_m : x.row.action_id_clr = events[c].action_id /\ ~x.shot_within_10s

(***************************************************************************)
(* Aggregator: aggregate_player_stats                                      *)
(***************************************************************************)

\* The eight categories in the order the function appends them to results:
\* the name, and the aggregated columns with what each one counts.
Categories ==
    <<[name |-> "tackle",
       cols |-> <<<<"tackle_attempt", "count">>, <<"tackle_fail", "is_fail">>>>],
      [name |-> "duel",
       cols |-> <<<<"duel_attempt", "count">>, <<"duel_fail", "is_fail">>>>],
      [name |-> "foul",
       cols |-> <<<<"foul_count", "count">>, <<"danger_foul_count", "in_def_third">>>>],
      [name |-> "clearance",
       cols |-> <<<<"clearance_attempt", "count">>>>],
      [name |-> "block",
       cols |-> <<<<"block_attempt", "count">>, <<"block_fail", "is_fail">>>>],
      [name |-> "interception",
       cols |-> <<<<"interception_attempt", "count">>, <<"interception_fail", "is_fail">>>>],
      [name |-> "card",
       cols |-> <<<<"card_count", "count">>>>],
      [name |-> "def_actions",
       cols |-> <<<<"def_actions", "count">>>>]>>

\* The row filter of each category.
InCategory(name, e) ==
    CASE name = "tackle" -> e.type_name = "Tackle"
      [] name = "duel" -> e.type_name = "Duel"
      [] name = "foul" -> e.type_name \in FOUL_TYPES
      [] name = "clearance" -> e.type_name \in {"Clearance", "Aerial Clearance"}
      [] name = "block" -> e.type_name = "Block"
      [] name = "interception" -> e.type_name = "Interception"
      [] name = "card" -> e.is_card
      [] name = "def_actions" -> e.type_name \in DEF_ACTIONS

CategoryIdx(df, name) == {i \in 1..Len(df) : InCategory(name, df[i])}

\* The group key of every groupby of the function.
PlayerKey(e) == <<e.player_id, e.player_name_ko, e.team_name_ko>>

\* groupby leaves out the rows with a missing value in a group key.
HasIdentity(e) ==
    /\ e.player_id # NA
    /\ e.player_name_ko # NACategory
    /\ e.team_name_ko # NACategory

\* Cells summed over the whole frame instead of over the rows of the group.
AggCellWholeFrame(df, idx, how) ==
    CASE how = "count" -> Cardinality(idx)
      [] how = "is_fail" -> Cardinality({i \in 1..Len(df) : df[i].is_fail})
      [] how = "in_def_third" -> Cardinality({i \in 1..Len(df) : df[i].in_def_third})

\* One aggregated cell: ("action_id", "count"), ("is_fail", "sum") or
\* ("in_def_third", "sum") over the rows of one group.
AggCell(df, idx, how) ==
    CASE how = "count" -> Cardinality(idx)
      [] how = "is_fail" -> Cardinality({i \in idx : df[i].is_fail})
      [] how = "in_def_third" -> Cardinality({i \in idx : df[i].in_def_third})

\* The names of the aggregated columns of a category.
CatCols(cat) == {cat.cols[k][1] : k \in 1..Len(cat.cols)}

\* <category>.groupby([player_id, player_name_ko, team_name_ko]).agg(...): a
\* function from group key to the aggregated cells.
CatTable(df, cat) ==
    LET idx == CategoryIdx(df, cat.name)
        keys == {PlayerKey(df[i]) : i \in {j \in idx : HasIdentity(df[j])}}
    IN  [k \in keys |->
            [c \in CatCols(cat) |->
                LET how == (CHOOSE n \in 1..Len(cat.cols) : cat.cols[n][1] = c)
                IN  AggCell(df, {i \in idx : PlayerKey(df[i]) = k}, cat.cols[how][2])]]

\* results as if every category were appended whether or not it has rows.
ResultCatsAll(df) == 1..Len(Categories)

\* results: the categories that have at least one matching row.
ResultCats(df) ==
    {n \in 1..Len(Categories) : CategoryIdx(df, Categories[n].name) # {}}

\* The columns of the empty frame returned when results is empty.
ExpectedColumns ==
    {"tackle_attempt", "tackle_fail", "duel_attempt", "duel_fail", "foul_count",
     "danger_foul_count", "clearance_attempt", "block_attempt", "block_fail",
     "interception_attempt", "interception_fail", "card_count", "def_actions"}

\* agg_df after the chain of outer merges on the group key: one row per key
\* that occurs in any category table, a missing cell where the key is not in
\* the category's table.
OuterMerge(df) ==
    LET cats == ResultCats(df)
        keys == UNION {DOMAIN CatTable(df, Categories[n]) : n \in cats}
        cols == UNION {CatCols(Categories[n]) : n \in cats}
        catOf(c) == CHOOSE n \in cats : c \in CatCols(Categories[n])
    IN  [cols |-> cols,
         rows |-> {[key |-> k,
                    cells |-> [c \in cols |->
                        LET t == CatTable(df, Categories[catOf(c)])
                        IN  IF k \in DOMAIN t THEN t[k][c] ELSE NA]] : k \in keys}]

FillNaSkipped(frame) == frame

\* agg_df[numeric_cols] = agg_df[numeric_cols].fillna(0)
FillNa(frame) ==
    [cols |-> frame.cols,
     rows |-> {[key |-> r.key,
                cells |-> [c \in frame.cols |->
                              IF r.cells[c] = NA THEN 0 ELSE r.cells[c]]] : r \in frame.rows}]

\* aggregate_player_stats.  The closing ffill/bfill of player_name_ko and
\* team_name_ko changes nothing: both are group keys, so no cell of them is
\* missing after the merges.
aggregate_player_stats(df) ==
    IF ResultCats(df) = {} THEN [cols |-> ExpectedColumns, rows |-> {}]
    ELSE FillNa(OuterMerge(df))

AggPlays ==
    {Play("Tackle", "Unsuccessful", FALSE, 1, "Kim", 1, "Ulsan"),
     Play("Tackle", "Successful", TRUE, 2, "Lee", 2, "Jeonbuk"),
     Play("Duel", "Unsuccessful", FALSE, 1, "Kim", 2, "Jeonbuk"),
     Play("Foul", "Yellow_Card", TRUE, 2, "Lee", 2, "Jeonbuk"),
     Play("Hit", "Successful", FALSE, 1, "Kim", 1, "Ulsan"),
     Play("Aerial Clearance", "Successful", TRUE, 3, "Park", 1, "Ulsan"),
     Play("Block", "Unsuccessful", TRUE, 3, "Park", 1, "Ulsan"),
     Play("Interception", "Successful", FALSE, 2, "Lee", 2, "Jeonbuk"),
     Play("Pass", "Direct_Red_Card", FALSE, 3, "Park", 1, "Ulsan"),
     Play("Pass", "Successful", FALSE, 4, "Choi", 2, "Jeonbuk"),
     Play("Tackle", "Unsuccessful", TRUE, NA, NACategory, 1, "Ulsan")}

AggEvents == {Event(<<1, 1>>, 0, p) : p \in AggPlays}

InitAgg ==
    /\ pc = "agg_start"
    /\ IsLogOver(events, AggEvents)
    /\ player_stats = NoTable
    /\ panic_m = NoTable
    /\ clearance_panic = NoTable
    /\ zone_in = NoTable
    /\ zone_out = NoTable
    /\ stats = NoTable
    /\ award_configs = NoTable
    /\ award_scores = NoTable
    /\ raw = NoTable
    /\ preprocessed = NoTable
    /\ preprocessed_again = NoTable
    /\ zone_fallback = NoTable
    /\ zone_impl = NoTable
    /\ events_with_zones = NoTable
    /\ team_zone_df = NoTable
    /\ player_zone_activity = NoTable
    /\ league_avg = NoTable
    /\ second_half_drop = NoTable
    /\ panic_cols = NoTable
    /\ award_cols = NoTable
    /\ leaderboard = NoTable
    /\ saved = NoTable
    /\ possession_out = NoTable
    /\ possession_in = NoTable
    /\ attack_stats = NoTable
    /\ def_third_turnover = NoTable
    /\ disk = NoTable
    /\ run = NoTable

AggregatePlayerStats ==
    /\ pc = "agg_start"
    /\ player_stats' = aggregate_player_stats(events)
    /\ pc' = "agg_done"
    /\ UNCHANGED <<zone_in, zone_out, events, panic_m, clearance_panic, stats,
                   award_configs, award_scores,
                   raw, preprocessed, preprocessed_again, zone_fallback, zone_impl,
                   events_with_zones, team_zone_df, player_zone_activity, league_avg,
                   second_half_drop, panic_cols, award_cols, leaderboard, saved,
                   run,
                   disk,
                   def_third_turnover,
                   attack_stats,
                   possession_in,
                   possession_out>>

NextAgg == AggregatePlayerStats

SpecAgg == InitAgg /\ [][NextAgg]_vars

\* The players with at least one event in some aggregated category.
AggregatedPlayers(df) ==
    {df[i].player_id : i \in UNION {CategoryIdx(df, Categories[n].name) : n \in 1..Len(Categories)}}

\* C4: every player with an event in some category has exactly one row, and
\* no count of any row is missing.
C4_OneRowPerPlayerNoNull ==
    pc = "agg_done" =>
        /\ \A p \in AggregatedPlayers(events) :
              Cardinality({r \in player_stats.rows : r.key[1] = p}) = 1
        /\ \A r \in player_stats.rows : \A c \in player_stats.cols :
              r.cells[c] # NA /\ r.cells[c] >= 0

(***************************************************************************)
(* Metrics engine: calculate_metrics                                       *)
(***************************************************************************)

RECURSIVE GCD(_, _)
GCD(a, b) == IF b = 0 THEN a ELSE GCD(b, a % b)

\* A float cell: the fraction n/d in lowest terms, d > 0.
Frac(n, d) == <<n \div GCD(n, d), d \div GCD(n, d)>>

\* The float NaN, and the result of x/0 for x > 0.
NaN == <<0, 0>>

Inf == <<1, 0>>

Zero == <<0, 1>>

\* Series division a / b of two count cells: pandas gives NaN for 0/0 and for a
\* missing operand, inf for x/0, and raises nothing.
Div(a, b) ==
    IF a = NA \/ b = NA THEN NaN
    ELSE IF b = 0 THEN (IF a = 0 THEN NaN ELSE Inf)
    ELSE Frac(a, b)

\* Order and equality of two float cells that are not NaN or inf.
FracLess(x, y) == x[1] * y[2] < y[1] * x[2]

RatioUnguarded(num, den) == Div(num, den)

\* np.where(den > 0, num / den, 0); a missing den compares False.
Ratio(num, den) == IF den # NA /\ den > 0 THEN Div(num, den) ELSE Zero

\* The six ratio metrics computed from the columns of player_stats, in the
\* order of the function: metric := num / den.
RatioMetrics ==
    <<[metric |-> "tackle_fail_rate", num |-> "tackle_fail", den |-> "tackle_attempt"],
      [metric |-> "card_per_def", num |-> "card_count", den |-> "def_actions"],
      [metric |-> "danger_foul_ratio", num |-> "danger_foul_count", den |-> "foul_count"],
      [metric |-> "block_fail_rate", num |-> "block_fail", den |-> "block_attempt"],
      [metric |-> "interception_fail_rate", num |-> "interception_fail",
       den |-> "interception_attempt"],
      [metric |-> "duel_fail_rate", num |-> "duel_fail", den |-> "duel_attempt"]>>

\* The ratio metric of the merged clearance-panic columns.
PanicMetric ==
    [metric |-> "clearance_panic_rate", num |-> "concede_shot10", den |-> "clearance"]

\* The right-hand row a stats row was merged with; NoRight when none.
NoRight == <<>>

\* Lines 17-63: each ratio metric whose two columns are in the frame is added.
AddRatioMetrics(frame) ==
    LET add == {n \in 1..Len(RatioMetrics) :
                   RatioMetrics[n].den \in frame.cols /\ RatioMetrics[n].num \in frame.cols}
        newcols == {RatioMetrics[n].metric : n \in add}
        spec(c) == RatioMetrics[CHOOSE n \in add : RatioMetrics[n].metric = c]
    IN  [cols |-> frame.cols \cup newcols,
         rows |-> {[key |-> r.key, right |-> NoRight,
                    cells |-> [c \in frame.cols \cup newcols |->
                        IF c \in frame.cols THEN r.cells[c]
                        ELSE Ratio(r.cells[spec(c).num], r.cells[spec(c).den])]] :
                   r \in frame.rows}]

\* stats.merge(clearance_panic[["player_id", "clearance", "concede_shot10"]],
\*             on="player_id", how="left"): every stats row once per panic row
\* of the same player_id, or once with missing cells when there is none.
LeftMergePanic(frame, panic) ==
    LET cols == frame.cols \cup {"clearance", "concede_shot10"}
        ext(r, right, clr, con) ==
            [key |-> r.key, right |-> right,
             cells |-> [c \in cols |->
                 IF c = "clearance" THEN clr
                 ELSE IF c = "concede_shot10" THEN con
                 ELSE r.cells[c]]]
        matches(r) == {q \in panic : q.player_id = r.key[1]}
    IN  [cols |-> cols,
         rows |-> UNION {IF matches(r) = {} THEN {ext(r, NoRight, NA, NA)}
                         ELSE {ext(r, <<q.player_id, q.player_name_ko, q.team_name_ko>>,
                                   q.clearance, q.concede_shot10) : q \in matches(r)} :
                         r \in frame.rows}]

\* Lines 72-78: clearance_panic_rate is computed, then the two merged columns
\* are zero-filled.
AddPanicRate(frame) ==
    LET cols == frame.cols \cup {PanicMetric.metric}
    IN  [cols |-> cols,
         rows |-> {[key |-> r.key, right |-> r.right,
                    cells |-> [c \in cols |->
                        IF c = PanicMetric.metric
                        THEN Ratio(r.cells[PanicMetric.num], r.cells[PanicMetric.den])
                        ELSE IF c \in {"clearance", "concede_shot10"} /\ r.cells[c] = NA THEN 0
                        ELSE r.cells[c]]] : r \in frame.rows}]

\* The clearance_panic argument: None, or a table.
NoneArg == [none |-> TRUE, rows |-> {}]

TableArg(rows) == [none |-> FALSE, rows |-> rows]

\* calculate_metrics(player_stats, clearance_panic) with second_half_drop,
\* def_third_turnover and attack_stats left at their default None.
calculate_metrics(frame, panic) ==
    LET ratios == AddRatioMetrics(frame)
    IN  IF ~panic.none /\ panic.rows # {}
        THEN AddPanicRate(LeftMergePanic(ratios, panic.rows))
        ELSE ratios

MetricPlays ==
    AggPlays \cup
    {Play("Clearance", "Successful", TRUE, 1, "Kim", 1, "Ulsan"),
     Play("Shot", "Goal", FALSE, 2, "Lee", 2, "Jeonbuk")}

MetricEvents == {Event(<<1, 1>>, 0, p) : p \in MetricPlays}

InitMetrics ==
    /\ pc = "metrics_aggregate"
    /\ IsLogOver(events, MetricEvents)
    /\ player_stats = NoTable
    /\ panic_m = NoTable
    /\ clearance_panic = NoTable
    /\ stats = NoTable
    /\ zone_in = NoTable
    /\ zone_out = NoTable
    /\ award_configs = NoTable
    /\ award_scores = NoTable
    /\ raw = NoTable
    /\ preprocessed = NoTable
    /\ preprocessed_again = NoTable
    /\ zone_fallback = NoTable
    /\ zone_impl = NoTable
    /\ events_with_zones = NoTable
    /\ team_zone_df = NoTable
    /\ player_zone_activity = NoTable
    /\ league_avg = NoTable
    /\ second_half_drop = NoTable
    /\ panic_cols = NoTable
    /\ award_cols = NoTable
    /\ leaderboard = NoTable
    /\ saved = NoTable
    /\ possession_out = NoTable
    /\ possession_in = NoTable
    /\ attack_stats = NoTable
    /\ def_third_turnover = NoTable
    /\ disk = NoTable
    /\ run = NoTable

\* player_stats = aggregate_player_stats(preprocessed)
MetricsAggregate ==
    /\ pc = "metrics_aggregate"
    /\ player_stats' = aggregate_player_stats(events)
    /\ pc' = "metrics_panic"
    /\ UNCHANGED <<zone_in, zone_out, events, panic_m, clearance_panic, stats,
                   award_configs, award_scores,
                   raw, preprocessed, preprocessed_again, zone_fallback, zone_impl,
                   events_with_zones, team_zone_df, player_zone_activity, league_avg,
                   second_half_drop, panic_cols, award_cols, leaderboard, saved,
                   run,
                   disk,
                   def_third_turnover,
                   attack_stats,
                   possession_in,
                   possession_out>>

\* clearance_panic = calculate_clearance_panic(preprocessed)
MetricsPanic ==
    /\ pc = "metrics_panic"
    /\ \E ord \in SortOrders(events) :
          /\ panic_m' = PanicMerge(events, ord)
          /\ clearance_panic' = PanicScore(PanicMerge(events, ord))
          /\ panic_cols' = clearance_panic_columns(events, PanicMerge(events, ord))
    /\ pc' = "metrics_calculate"
    /\ UNCHANGED <<zone_in, zone_out, events, player_stats, stats, award_configs,
                   award_scores,
                   raw, preprocessed, preprocessed_again, zone_fallback, zone_impl,
                   events_with_zones, team_zone_df, player_zone_activity, league_avg,
                   second_half_drop, award_cols, leaderboard, saved,
                   run,
                   disk,
                   def_third_turnover,
                   attack_stats,
                   possession_in,
                   possession_out>>

\* calculate_metrics(player_stats, clearance_panic=clearance_panic)
MetricsCalculate ==
    /\ pc = "metrics_calculate"
    /\ stats' = calculate_metrics(player_stats, TableArg(clearance_panic))
    /\ pc' = "metrics_done"
    /\ UNCHANGED <<zone_in, zone_out, events, panic_m, clearance_panic, player_stats,
                   award_configs, award_scores,
                   raw, preprocessed, preprocessed_again, zone_fallback, zone_impl,
                   events_with_zones, team_zone_df, player_zone_activity, league_avg,
                   second_half_drop, panic_cols, award_cols, leaderboard, saved,
                   run,
                   disk,
                   def_third_turnover,
                   attack_stats,
                   possession_in,
                   possession_out>>

NextMetrics == MetricsAggregate \/ MetricsPanic \/ MetricsCalculate

SpecMetrics == InitMetrics /\ [][NextMetrics]_vars

\* The seven ratio metrics of the claim.
AllRatioMetrics ==
    {RatioMetrics[n] : n \in 1..Len(RatioMetrics)} \cup {PanicMetric}

\* C5: every ratio metric that calculate_metrics computes is exactly 0 for a
\* player whose denominator count is 0, is never NaN (nor infinite), and the
\* call completes for every input.
C5_ZeroGuard ==
    /\ pc = "metrics_calculate" => ENABLED MetricsCalculate
    /\ pc = "metrics_done" =>
          \A r \in stats.rows : \A m \in AllRatioMetrics :
              m.metric \in stats.cols =>
                  /\ r.cells[m.metric] # NaN
                  /\ r.cells[m.metric] # Inf
                  /\ r.cells[m.den] = 0 => r.cells[m.metric] = Zero
                  /\ r.cells[m.den] > 0 =>
                        r.cells[m.metric] = Frac(r.cells[m.num], r.cells[m.den])

\* C5 witness: a player with a card but no defensive action (1/0 unguarded) and
\* no clearance got card_per_def = 0 and clearance_panic_rate = 0.
C5_Witness ==
    /\ pc = "metrics_done"
    /\ {"card_per_def", "clearance_panic_rate"} \subseteq stats.cols
    /\ \E r \in stats.rows :
          /\ r.cells["def_actions"] = 0 /\ r.cells["card_count"] > 0
          /\ r.cells["card_per_def"] = Zero
          /\ r.cells["clearance"] = 0 /\ r.cells["clearance_panic_rate"] = Zero

(***************************************************************************)
(* Ranking engine: compute_award_scores                                    *)
(***************************************************************************)

\* AWARDS of the configuration: id, metric and min_attempts of each award.
AWARDS ==
    <<[id |-> "tackle_fail", metric |-> "tackle_fail_rate", min_attempts |-> 5],
      [id |-> "card_per_def", metric |-> "card_per_def", min_attempts |-> 10],
      [id |-> "danger_foul", metric |-> "danger_foul_ratio", min_attempts |-> 3],
      [id |-> "clearance_panic", metric |-> "clearance_panic_rate", min_attempts |-> 5],
      [id |-> "block_fail", metric |-> "block_fail_rate", min_attempts |-> 3],
      [id |-> "interception_fail", metric |-> "interception_fail_rate", min_attempts |-> 5],
      [id |-> "duel_fail", metric |-> "duel_fail_rate", min_attempts |-> 10],
      [id |-> "def_third_turnover", metric |-> "def_third_turnover_rate", min_attempts |-> 10],
      [id |-> "second_half_drop", metric |-> "second_half_drop", min_attempts |-> 20],
      [id |-> "cannon_shot", metric |-> "off_target_per_game", min_attempts |-> 10],
      [id |-> "chicken_chest", metric |-> "penalty_box_miss_per_game", min_attempts |-> 5],
      [id |-> "offside_line", metric |-> "offside_per_game", min_attempts |-> 1],
      [id |-> "selfish_player", metric |-> "receive_to_give_ratio", min_attempts |-> 50],
      [id |-> "cross_fail", metric |-> "cross_fail_per_game", min_attempts |-> 10],
      [id |-> "duel_loser_attack", metric |-> "duel_fail_per_game_attack", min_attempts |-> 20],
      [id |-> "aerial_fail", metric |-> "aerial_fail_per_game", min_attempts |-> 1]>>

\* attempt_cols: the column each metric is filtered on.
attempt_cols ==
    [m \in {"tackle_fail_rate", "block_fail_rate", "interception_fail_rate",
            "duel_fail_rate", "clearance_panic_rate", "card_per_def", "danger_foul_ratio",
            "def_third_turnover_rate", "second_half_drop", "off_target_per_game",
            "penalty_box_miss_per_game", "offside_per_game", "receive_to_give_ratio",
            "cross_fail_per_game", "duel_fail_per_game_attack", "aerial_fail_per_game"} |->
        CASE m = "tackle_fail_rate" -> "tackle_attempt"
          [] m = "block_fail_rate" -> "block_attempt"
          [] m = "interception_fail_rate" -> "interception_attempt"
          [] m = "duel_fail_rate" -> "duel_attempt"
          [] m = "clearance_panic_rate" -> "clearance"
          [] m = "card_per_def" -> "def_actions"
          [] m = "danger_foul_ratio" -> "foul_count"
          [] m = "def_third_turnover_rate" -> "def_third_attempts"
          [] m = "second_half_drop" -> "def_actions"
          [] m = "off_target_per_game" -> "total_shots"
          [] m = "penalty_box_miss_per_game" -> "penalty_box_shots"
          [] m = "offside_per_game" -> "offsides"
          [] m = "receive_to_give_ratio" -> "pass_received"
          [] m = "cross_fail_per_game" -> "total_crosses"
          [] m = "duel_fail_per_game_attack" -> "total_duels_attack"
          [] m = "aerial_fail_per_game" -> "aerial_fail"]

FilteredUnfiltered(frame, award) == frame.rows

\* filtered: the rows with attempt_col >= min_attempts, or every row when the
\* metric has no attempt column in the frame.
Filtered(frame, award) ==
    IF award.metric \in DOMAIN attempt_cols /\ attempt_cols[award.metric] \in frame.cols
    THEN {r \in frame.rows : r.cells[attempt_cols[award.metric]] >= award.min_attempts}
    ELSE frame.rows

\* scores = filtered[metric].fillna(0)
Score(r, metric) == IF r.cells[metric] = NaN THEN Zero ELSE r.cells[metric]

RankAscending(F, r, metric) ==
    1 + Cardinality({x \in F : FracLess(Score(x, metric), Score(r, metric))})

\* scores.rank(ascending=False, method="min"): one more than the number of
\* rows with a strictly higher score.
Rank(F, r, metric) ==
    1 + Cardinality({x \in F : FracLess(Score(r, metric), Score(x, metric))})

PercentileMax(F, r, metric) ==
    Frac(100 * Cardinality({x \in F : ~FracLess(Score(r, metric), Score(x, metric))}),
         Cardinality(F))

\* scores.rank(pct=True) * 100: the default method is "average", so a row's
\* ascending rank is the mean of the positions its tie group occupies,
\* (number below) + (size of the tie group + 1) / 2, divided by the row count.
Percentile(F, r, metric) ==
    LET below == Cardinality({x \in F : FracLess(Score(x, metric), Score(r, metric))})
        tied == Cardinality({x \in F : Score(x, metric) = Score(r, metric)})
    IN  Frac(100 * (2 * below + tied + 1), 2 * Cardinality(F))

\* Ranks and percentiles taken over every row of stats instead of the
\* filtered rows.
AwardRowsRankedInStats(frame, award) ==
    IF award.metric \notin frame.cols THEN {}
    ELSE LET F == Filtered(frame, award)
         IN  {[award_id |-> award.id,
               player_id |-> r.key[1], player_name_ko |-> r.key[2], team_name_ko |-> r.key[3],
               source |-> <<r.key, r.right>>,
               score |-> Score(r, award.metric),
               rank |-> Rank(frame.rows, r, award.metric),
               percentile |-> Percentile(frame.rows, r, award.metric)] : r \in F}

\* The rows one award contributes: none when its metric is not a column or
\* no row passes the filter.
AwardRows(frame, award) ==
    IF award.metric \notin frame.cols THEN {}
    ELSE LET F == Filtered(frame, award)
         IN  {[award_id |-> award.id,
               player_id |-> r.key[1], player_name_ko |-> r.key[2], team_name_ko |-> r.key[3],
               source |-> <<r.key, r.right>>,
               score |-> Score(r, award.metric),
               rank |-> Rank(F, r, award.metric),
               percentile |-> Percentile(F, r, award.metric)] : r \in F}

\* compute_award_scores(stats, award_configs): the concatenation of the rows
\* of every award.
compute_award_scores(frame, configs) ==
    UNION {AwardRows(frame, configs[n]) : n \in 1..Len(configs)}

NoColumns == <<>>

\* Line 188: the columns of the empty frame returned when results is empty.
EmptyAwardColumns ==
    <<"award_id", "player_id", "player_name_ko", "team_name_ko", "score", "rank",
      "percentile">>

\* Lines 175-183: the columns of the frame each award appends to results.
AwardFrameColumns ==
    <<"award_id", "player_id", "player_name_ko", "team_name_ko", "score", "rank",
      "percentile">>

\* The columns of the frame compute_award_scores returns.
award_score_columns(frame, configs) ==
    IF compute_award_scores(frame, configs) = {} THEN EmptyAwardColumns
    ELSE AwardFrameColumns

\* Number of players in the stats table handed to the ranking engine.
NumPlayers == 3

\* (tackle_attempt, tackle_fail) and (block_attempt, block_fail) of one player.
TacklePairs == {<<3, 1>>, <<5, 2>>, <<5, 0>>, <<6, 6>>, <<10, 4>>}

BlockPairs == {<<0, 0>>, <<3, 2>>}

StatsRow(p, tackle, block) ==
    [key |-> <<p, "Kim", "Ulsan">>,
     cells |-> [c \in {"tackle_attempt", "tackle_fail", "block_attempt", "block_fail"} |->
                  CASE c = "tackle_attempt" -> tackle[1]
                    [] c = "tackle_fail" -> tackle[2]
                    [] c = "block_attempt" -> block[1]
                    [] c = "block_fail" -> block[2]]]

InitAward ==
    /\ pc = "award_metrics"
    /\ \E t \in [1..NumPlayers -> TacklePairs] : \E b \in [1..NumPlayers -> BlockPairs] :
          player_stats =
              [cols |-> {"tackle_attempt", "tackle_fail", "block_attempt", "block_fail"},
               rows |-> {StatsRow(p, t[p], b[p]) : p \in 1..NumPlayers}]
    /\ award_configs = AWARDS
    /\ stats = NoTable
    /\ award_scores = NoTable
    /\ events = NoTable
    /\ panic_m = NoTable
    /\ clearance_panic = NoTable
    /\ zone_in = NoTable
    /\ zone_out = NoTable
    /\ raw = NoTable
    /\ preprocessed = NoTable
    /\ preprocessed_again = NoTable
    /\ zone_fallback = NoTable
    /\ zone_impl = NoTable
    /\ events_with_zones = NoTable
    /\ team_zone_df = NoTable
    /\ player_zone_activity = NoTable
    /\ league_avg = NoTable
    /\ second_half_drop = NoTable
    /\ panic_cols = NoTable
    /\ award_cols = NoTable
    /\ leaderboard = NoTable
    /\ saved = NoTable
    /\ possession_out = NoTable
    /\ possession_in = NoTable
    /\ attack_stats = NoTable
    /\ def_third_turnover = NoTable
    /\ disk = NoTable
    /\ run = NoTable

\* player_stats_with_metrics = calculate_metrics(player_stats)
AwardMetrics ==
    /\ pc = "award_metrics"
    /\ stats' = calculate_metrics(player_stats, NoneArg)
    /\ pc' = "award_scores"
    /\ UNCHANGED <<zone_in, zone_out, events, panic_m, clearance_panic, player_stats,
                   award_configs, award_scores,
                   raw, preprocessed, preprocessed_again, zone_fallback, zone_impl,
                   events_with_zones, team_zone_df, player_zone_activity, league_avg,
                   second_half_drop, panic_cols, award_cols, leaderboard, saved,
                   run,
                   disk,
                   def_third_turnover,
                   attack_stats,
                   possession_in,
                   possession_out>>

\* award_scores = compute_award_scores(player_stats_with_metrics)
ComputeAwardScores ==
    /\ pc = "award_scores"
    /\ award_scores' = compute_award_scores(stats, award_configs)
    /\ award_cols' = award_score_columns(stats, award_configs)
    /\ pc' = "award_done"
    /\ UNCHANGED <<zone_in, zone_out, events, panic_m, clearance_panic, player_stats,
                   stats, award_configs,
                   raw, preprocessed, preprocessed_again, zone_fallback, zone_impl,
                   events_with_zones, team_zone_df, player_zone_activity, league_avg,
                   second_half_drop, panic_cols, leaderboard, saved,
                   run,
                   disk,
                   def_third_turnover,
                   attack_stats,
                   possession_in,
                   possession_out>>

NextAward == AwardMetrics \/ ComputeAwardScores

SpecAward == InitAward /\ [][NextAward]_vars

\* The awards of the configuration whose metric is a column of stats.
ScoredAwards ==
    {award_configs[n] : n \in {k \in 1..Len(award_configs) : award_configs[k].metric \in stats.cols}}

\* The rows of award_scores of one award.
RowsOf(award) == {x \in award_scores : x.award_id = award.id}

\* C6: for an award whose attempt column is in the stats table, the output
\* has exactly one row for each player with attempts >= min_attempts, none for
\* a player below it, and the row's score is the player's metric value (5
\* tackles with 2 fails give 2/5 = 0.4).
C6_ThresholdAndScore ==
    pc = "award_done" =>
        \A a \in ScoredAwards :
            attempt_cols[a.metric] \in stats.cols =>
                /\ \A r \in stats.rows :
                      LET mine == {x \in RowsOf(a) : x.player_id = r.key[1]}
                      IN  IF r.cells[attempt_cols[a.metric]] >= a.min_attempts
                          THEN /\ Cardinality(mine) = 1
                               /\ \A x \in mine : x.score = r.cells[a.metric]
                          ELSE mine = {}
                /\ \A x \in RowsOf(a) : \E r \in stats.rows : r.key[1] = x.player_id
                /\ a.id = "tackle_fail" =>
                      \A r \in stats.rows :
                          (r.cells["tackle_attempt"] = 5 /\ r.cells["tackle_fail"] = 2)
                              => \E x \in RowsOf(a) :
                                    x.player_id = r.key[1] /\ x.score = <<2, 5>>

\* C6 witness: a player with 5 tackles and 2 fails is in the tackle_fail award
\* with score 2/5 while a player with 3 tackles is not.
C6_Witness ==
    /\ pc = "award_done"
    /\ \E r, q \in stats.rows :
          /\ r.cells["tackle_attempt"] = 5 /\ r.cells["tackle_fail"] = 2
          /\ q.cells["tackle_attempt"] = 3
          /\ \E x \in award_scores :
                x.award_id = "tackle_fail" /\ x.player_id = r.key[1] /\ x.score = <<2, 5>>
          /\ ~\E x \in award_scores : x.award_id = "tackle_fail" /\ x.player_id = q.key[1]

\* C7: with N rows in an award, ranks lie in 1..N, the highest score has rank
\* 1, a strictly higher score never has a larger rank number, equal scores
\* share the smallest rank of their tie group (one more than the number of
\* rows with a strictly higher score), and percentiles lie in [0, 100].
C7_CompetitionRanking ==
    pc = "award_done" =>
        \A a \in ScoredAwards :
            LET R == RowsOf(a)
                N == Cardinality(R)
            IN  \A x \in R :
                    /\ x.rank \in 1..N
                    /\ (\A y \in R : ~FracLess(x.score, y.score)) => x.rank = 1
                    /\ \A y \in R : FracLess(y.score, x.score) => x.rank < y.rank
                    /\ \A y \in R : y.score = x.score => y.rank = x.rank
                    /\ x.rank = 1 + Cardinality({y \in R : FracLess(x.score, y.score)})
                    /\ x.percentile[2] > 0
                    /\ 0 <= x.percentile[1]
                    /\ x.percentile[1] <= 100 * x.percentile[2]

\* C7 witness: an award with three rows, two of them tied at the top with
\* rank 1 and the third with rank 3.
C7_Witness ==
    /\ pc = "award_done"
    /\ \E x, y, z \in award_scores :
          /\ x.award_id = y.award_id /\ y.award_id = z.award_id
          /\ x.player_id # y.player_id
          /\ x.score = y.score /\ FracLess(z.score, x.score)
          /\ x.rank = 1 /\ y.rank = 1 /\ z.rank = 3

NotNa(v) == v # NACategory

\* .astype("string") on a categorical cell: a missing category stays missing.
AsTypeString(cat) == cat

\* Series + Series of dtype "string": missing when either operand is missing.
StringAdd(a, b) == IF NotNa(a) /\ NotNa(b) THEN a \o b ELSE NACategory

\* The fallback add_zone_columns on one row (bins and labels are the same
\* numbers as XBins, YBins, XLabels, YLabels).
FallbackZoneX(c) == AsTypeString(PdCut(c, <<0, 2625, 5250, 7875, 10500>>,
                                       <<"D", "DM", "AM", "A">>, FALSE, TRUE))

FallbackZoneY(c) == AsTypeString(PdCut(c, <<0, 2267, 4533, 6800>>,
                                       <<"L", "C", "R">>, FALSE, TRUE))

FallbackZoneRow(r) ==
    [start_x |-> r.start_x, start_y |-> r.start_y,
     zone_x |-> FallbackZoneX(r.start_x), zone_y |-> FallbackZoneY(r.start_y),
     zone |-> StringAdd(StringAdd(FallbackZoneX(r.start_x), "-"),
                        FallbackZoneY(r.start_y))]

add_zone_columns_fallback(frame) == [i \in 1..Len(frame) |-> FallbackZoneRow(frame[i])]

\* The add_zone_columns the script ends up with: the one imported from
\* open_track2 when that directory is there and the import works, the
\* fallback defined in the script otherwise.
ZoneImpls == {"feature_engineering", "fallback"}

\* add_zone_columns(events_filtered, x_col="start_x", y_col="start_y"): the
\* three zone columns are added to the columns the frame has.
PatternZoned(frame, impl) ==
    LET z == IF impl = "fallback" THEN add_zone_columns_fallback(frame)
             ELSE add_zone_columns(frame)
    IN  [i \in 1..Len(frame) |->
            [zone_x |-> z[i].zone_x, zone_y |-> z[i].zone_y, zone |-> z[i].zone]
                @@ frame[i]]

KEY_EVENT_TYPES ==
    {"Pass", "Shot", "Shot_Freekick", "Cross", "Duel", "Tackle", "Interception",
     "Foul", "Clearance", "Block"}

\* events_with_zones: the key events, zoned, with the rows whose zone is
\* missing removed (the set of remaining rows; action_id tells them apart).
EventsWithZones(frame, impl) ==
    LET events_filtered == SelectSeq(frame, LAMBDA e : e.type_name \in KEY_EVENT_TYPES)
        zoned == PatternZoned(events_filtered, impl)
    IN  {zoned[i] : i \in {k \in 1..Len(zoned) : NotNa(zoned[k].zone)}}

\* agg(success=("is_success", "sum")) over a group of rows.
SumFlag(rows, flag) == Cardinality({e \in rows : e[flag]})

\* team_zone_df: event_count and success_rate per (team_name_ko, zone,
\* event_type); the left merge of the two tables is on their common key.
TeamZoneDf(ewz) ==
    LET key(e) == <<e.team_name_ko, e.zone, e.type_name>>
        grp(k) == {e \in ewz : key(e) = k}
    IN  {[team_name_ko |-> k[1], zone |-> k[2], event_type |-> k[3],
          event_count |-> Cardinality(grp(k)),
          success |-> SumFlag(grp(k), "is_success"),
          success_rate |-> Ratio(SumFlag(grp(k), "is_success"), Cardinality(grp(k)))] :
            k \in {key(e) : e \in ewz}}

\* player_zone_activity per (player_id, player_name_ko, team_name_ko, zone,
\* type_name).
PlayerZoneActivity(ewz) ==
    LET key(e) == <<e.player_id, e.player_name_ko, e.team_name_ko, e.zone, e.type_name>>
        grp(k) == {e \in ewz : key(e) = k}
    IN  {[player_id |-> k[1], player_name_ko |-> k[2], team_name_ko |-> k[3],
          zone |-> k[4], type_name |-> k[5],
          event_count |-> Cardinality(grp(k)),
          success_count |-> SumFlag(grp(k), "is_success"),
          fail_count |-> SumFlag(grp(k), "is_fail"),
          success_rate |-> Ratio(SumFlag(grp(k), "is_success"), Cardinality(grp(k)))] :
            k \in {key(e) : e \in ewz}}

\* league_avg per (zone, type_name), with the mean over teams of the team's
\* event count for that zone and type.
LeagueAvg(ewz) ==
    LET key(e) == <<e.zone, e.type_name>>
        grp(k) == {e \in ewz : key(e) = k}
    IN  {[zone |-> k[1], type_name |-> k[2],
          league_count |-> Cardinality(grp(k)),
          league_success |-> SumFlag(grp(k), "is_success"),
          league_success_rate |-> Ratio(SumFlag(grp(k), "is_success"), Cardinality(grp(k))),
          avg_events_per_team |->
              Div(Cardinality(grp(k)), Cardinality({e.team_name_ko : e \in grp(k)}))] :
            k \in {key(e) : e \in ewz}}

\* Largest number of events in the log of the pattern script.
MaxZoned == 2

\* Type and result of the events tried: two key types, one type the script
\* filters out, shots with and without a goal.
PatternPlays ==
    {<<"Pass", "Successful">>, <<"Pass", "Unsuccessful">>, <<"Shot", "Goal">>,
     <<"Shot", "On Target">>, <<"Goal Kick", "Successful">>}

\* Start coordinates tried: inside the pitch, on the far goal line x = 105,
\* and missing.
PatternCoords ==
    {<<Coord(1000), Coord(1000)>>, <<Coord(10500), Coord(1000)>>,
     <<MissingCoord, MissingCoord>>}

PatternPlayers == {<<1, "Kim", "Ulsan">>, <<2, "Lee", "Jeonbuk">>}

\* One preprocessed event of the pattern script: is_success and is_fail are
\* the flags preprocess_events derives from result_name.
PatternEvent(play, xy, who) ==
    [type_name |-> play[1], result_name |-> play[2],
     is_success |-> play[2] = "Successful", is_fail |-> play[2] = "Unsuccessful",
     start_x |-> xy[1], start_y |-> xy[2],
     player_id |-> who[1], player_name_ko |-> who[2], team_name_ko |-> who[3]]

PatternEvents ==
    {PatternEvent(p, xy, w) : p \in PatternPlays, xy \in PatternCoords, w \in PatternPlayers}

InitPattern ==
    /\ pc = "pattern_zones"
    /\ \E n \in 0..MaxZoned : \E l \in [1..n -> PatternEvents] :
          preprocessed = [i \in 1..n |-> [action_id |-> i] @@ l[i]]
    /\ zone_impl \in ZoneImpls
    /\ events_with_zones = NoTable
    /\ team_zone_df = NoTable
    /\ player_zone_activity = NoTable
    /\ league_avg = NoTable
    /\ zone_in = NoTable
    /\ zone_out = NoTable
    /\ zone_fallback = NoTable
    /\ events = NoTable
    /\ panic_m = NoTable
    /\ clearance_panic = NoTable
    /\ player_stats = NoTable
    /\ stats = NoTable
    /\ award_configs = NoTable
    /\ award_scores = NoTable
    /\ raw = NoTable
    /\ preprocessed_again = NoTable
    /\ second_half_drop = NoTable
    /\ panic_cols = NoTable
    /\ award_cols = NoTable
    /\ leaderboard = NoTable
    /\ saved = NoTable
    /\ possession_out = NoTable
    /\ possession_in = NoTable
    /\ attack_stats = NoTable
    /\ def_third_turnover = NoTable
    /\ disk = NoTable
    /\ run = NoTable

\* Lines 170-182: filter to the key types, add the zone columns, keep the
\* rows whose zone is not null.
PatternAddZones ==
    /\ pc = "pattern_zones"
    /\ events_with_zones' = EventsWithZones(preprocessed, zone_impl)
    /\ pc' = "pattern_team"
    /\ UNCHANGED <<zone_in, zone_out, events, panic_m, clearance_panic, player_stats,
                   stats, award_configs, award_scores, raw, preprocessed,
                   preprocessed_again, zone_fallback, zone_impl, team_zone_df,
                   player_zone_activity, league_avg, second_half_drop, panic_cols,
                   award_cols, leaderboard, saved,
                   run,
                   disk,
                   def_third_turnover,
                   attack_stats,
                   possession_in,
                   possession_out>>

\* Lines 200-227: team_zone_profile, team_zone_success and their merge.
PatternTeamZone ==
    /\ pc = "pattern_team"
    /\ team_zone_df' = TeamZoneDf(events_with_zones)
    /\ pc' = "pattern_player"
    /\ UNCHANGED <<zone_in, zone_out, events, panic_m, clearance_panic, player_stats,
                   stats, award_configs, award_scores, raw, preprocessed,
                   preprocessed_again, zone_fallback, zone_impl, events_with_zones,
                   player_zone_activity, league_avg, second_half_drop, panic_cols,
                   award_cols, leaderboard, saved,
                   run,
                   disk,
                   def_third_turnover,
                   attack_stats,
                   possession_in,
                   possession_out>>

\* Lines 235-247.
PatternPlayerZone ==
    /\ pc = "pattern_player"
    /\ player_zone_activity' = PlayerZoneActivity(events_with_zones)
    /\ pc' = "pattern_league"
    /\ UNCHANGED <<zone_in, zone_out, events, panic_m, clearance_panic, player_stats,
                   stats, award_configs, award_scores, raw, preprocessed,
                   preprocessed_again, zone_fallback, zone_impl, events_with_zones,
                   team_zone_df, league_avg, second_half_drop, panic_cols,
                   award_cols, leaderboard, saved,
                   run,
                   disk,
                   def_third_turnover,
                   attack_stats,
                   possession_in,
                   possession_out>>

\* Lines 255-274.
PatternLeagueAvg ==
    /\ pc = "pattern_league"
    /\ league_avg' = LeagueAvg(events_with_zones)
    /\ pc' = "pattern_done"
    /\ UNCHANGED <<zone_in, zone_out, events, panic_m, clearance_panic, player_stats,
                   stats, award_configs, award_scores, raw, preprocessed,
                   preprocessed_again, zone_fallback, zone_impl, events_with_zones,
                   team_zone_df, player_zone_activity, second_half_drop, panic_cols,
                   award_cols, leaderboard, saved,
                   run,
                   disk,
                   def_third_turnover,
                   attack_stats,
                   possession_in,
                   possession_out>>

NextPattern == PatternAddZones \/ PatternTeamZone \/ PatternPlayerZone \/ PatternLeagueAvg

SpecPattern == InitPattern /\ [][NextPattern]_vars

\* C11: an event that starts outside [0,105] x [0,68], or has no start
\* coordinate, is not in events_with_zones, and every row of the team, player
\* and league zone tables carries one of the 12 valid zone labels.
C11_OffPitchExcluded ==
    /\ pc # "pattern_zones" =>
          /\ \A e \in events_with_zones : e.zone \in ValidZones
          /\ \A i \in 1..Len(preprocessed) :
                LET e == preprocessed[i] IN
                (\/ e.start_x.isna \/ e.start_x.v < 0 \/ e.start_x.v > 10500
                 \/ e.start_y.isna \/ e.start_y.v < 0 \/ e.start_y.v > 6800)
                    => ~\E z \in events_with_zones : z.action_id = e.action_id
    /\ pc \notin {"pattern_zones", "pattern_team"} =>
          \A r \in team_zone_df : r.zone \in ValidZones
    /\ pc \in {"pattern_league", "pattern_done"} =>
          \A r \in player_zone_activity : r.zone \in ValidZones
    /\ pc = "pattern_done" =>
          \A r \in league_avg : r.zone \in ValidZones

(***************************************************************************)
(* Preprocessor: preprocess_events                                         *)
(***************************************************************************)

SortKeyLessNoAction(a, b) ==
    \/ a.game_id < b.game_id
    \/ /\ a.game_id = b.game_id
       /\ \/ a.period_id < b.period_id
          \/ /\ a.period_id = b.period_id
             /\ a.time_seconds < b.time_seconds

\* Row a sorts strictly before row b under
\* sort_values(["game_id", "period_id", "time_seconds", "action_id"]).
SortKeyLess(a, b) ==
    \/ a.game_id < b.game_id
    \/ /\ a.game_id = b.game_id
       /\ \/ a.period_id < b.period_id
          \/ /\ a.period_id = b.period_id
             /\ \/ a.time_seconds < b.time_seconds
                \/ /\ a.time_seconds = b.time_seconds
                   /\ a.action_id < b.action_id

SortPosTiesReversed(df, i) ==
    1 + Cardinality({j \in 1..Len(df) : SortKeyLess(df[j], df[i])})
      + Cardinality({j \in 1..Len(df) :
                        j > i /\ ~SortKeyLess(df[j], df[i]) /\ ~SortKeyLess(df[i], df[j])})

\* Position of row i after the sort.  A sort on several columns is a
\* lexsort, which is stable: rows with the same key keep their input order.
SortPos(df, i) ==
    1 + Cardinality({j \in 1..Len(df) : SortKeyLess(df[j], df[i])})
      + Cardinality({j \in 1..Len(df) :
                        j < i /\ ~SortKeyLess(df[j], df[i]) /\ ~SortKeyLess(df[i], df[j])})

\* df.sort_values([...]).reset_index(drop=True)
SortValues(df) ==
    [k \in 1..Len(df) |-> df[CHOOSE i \in 1..Len(df) : SortPos(df, i) = k]]

\* The four derived columns of one row; a column already there is overwritten.
\* A missing start_x compares False with 35.
WithFlags(e) ==
    [is_success |-> e.result_name = "Successful",
     is_fail |-> e.result_name = "Unsuccessful",
     is_card |-> e.result_name \in CARD_SET,
     in_def_third |-> ~e.start_x.isna /\ e.start_x.v <= 3500] @@ e

preprocess_events(df) ==
    LET sorted == SortValues(df)
    IN  [k \in 1..Len(sorted) |-> WithFlags(sorted[k])]

\* Largest number of rows of the raw event table.
MaxRaw == 3

\* Sort keys tried: one base key, one key that differs from it in each single
\* column, so that every pair of columns is ordered against each other.
RawKeys == {<<1, 1, 0, 1>>, <<1, 1, 0, 2>>, <<1, 1, 5, 1>>, <<1, 2, 0, 1>>, <<2, 1, 0, 1>>}

\* result_name and start_x tried: each flag true once; start_x on the
\* boundary 35, just above it, and missing.
RawPlays ==
    {<<"Successful", Coord(3500)>>, <<"Unsuccessful", Coord(3501)>>,
     <<"Yellow_Card", MissingCoord>>}

RawEvent(k, play) ==
    [game_id |-> k[1], period_id |-> k[2], time_seconds |-> k[3], action_id |-> k[4],
     result_name |-> play[1], start_x |-> play[2]]

RawEvents == {RawEvent(k, p) : k \in RawKeys, p \in RawPlays}

RawColumns == {"game_id", "period_id", "time_seconds", "action_id", "result_name", "start_x"}

InitPreprocess ==
    /\ pc = "preprocess_start"
    /\ \E n \in 0..MaxRaw : raw \in [1..n -> RawEvents]
    /\ preprocessed = NoTable
    /\ preprocessed_again = NoTable
    /\ zone_in = NoTable
    /\ zone_out = NoTable
    /\ zone_fallback = NoTable
    /\ zone_impl = NoTable
    /\ events_with_zones = NoTable
    /\ team_zone_df = NoTable
    /\ player_zone_activity = NoTable
    /\ league_avg = NoTable
    /\ events = NoTable
    /\ panic_m = NoTable
    /\ clearance_panic = NoTable
    /\ player_stats = NoTable
    /\ stats = NoTable
    /\ award_configs = NoTable
    /\ award_scores = NoTable
    /\ second_half_drop = NoTable
    /\ panic_cols = NoTable
    /\ award_cols = NoTable
    /\ leaderboard = NoTable
    /\ saved = NoTable
    /\ possession_out = NoTable
    /\ possession_in = NoTable
    /\ attack_stats = NoTable
    /\ def_third_turnover = NoTable
    /\ disk = NoTable
    /\ run = NoTable

\* preprocessed = preprocess_events(raw)
PreprocessEvents ==
    /\ pc = "preprocess_start"
    /\ preprocessed' = preprocess_events(raw)
    /\ pc' = "preprocess_done"
    /\ UNCHANGED <<zone_in, zone_out, events, panic_m, clearance_panic, player_stats,
                   stats, award_configs, award_scores, raw, preprocessed_again,
                   zone_fallback, zone_impl, events_with_zones, team_zone_df,
                   player_zone_activity, league_avg, second_half_drop, panic_cols,
                   award_cols, leaderboard, saved,
                   run,
                   disk,
                   def_third_turnover,
                   attack_stats,
                   possession_in,
                   possession_out>>

\* preprocess_events applied to its own output.
PreprocessAgain ==
    /\ pc = "preprocess_done"
    /\ preprocessed_again' = preprocess_events(preprocessed)
    /\ pc' = "preprocess_twice"
    /\ UNCHANGED <<zone_in, zone_out, events, panic_m, clearance_panic, player_stats,
                   stats, award_configs, award_scores, raw, preprocessed,
                   zone_fallback, zone_impl, events_with_zones, team_zone_df,
                   player_zone_activity, league_avg, second_half_drop, panic_cols,
                   award_cols, leaderboard, saved,
                   run,
                   disk,
                   def_third_turnover,
                   attack_stats,
                   possession_in,
                   possession_out>>

NextPreprocess == PreprocessEvents \/ PreprocessAgain

SpecPreprocess == InitPreprocess /\ [][NextPreprocess]_vars

\* The original columns of a preprocessed row.
RawPart(e) == [c \in RawColumns |-> e[c]]

\* How many rows of the frame have the original columns of row v.
CountOf(df, v) == Cardinality({i \in 1..Len(df) : RawPart(df[i]) = v})

\* C12: the output of preprocess_events has every input row exactly as often
\* as the input has it (none dropped, none duplicated), and its rows ascend
\* lexicographically by (game_id, period_id, time_seconds, action_id).
C12_SameRowsSorted ==
    pc # "preprocess_start" =>
        /\ Len(preprocessed) = Len(raw)
        /\ \A v \in RawEvents : CountOf(preprocessed, v) = CountOf(raw, v)
        /\ \A k \in 1..(Len(preprocessed) - 1) :
              \/ SortKeyLess(preprocessed[k], preprocessed[k + 1])
              \/ /\ preprocessed[k].game_id = preprocessed[k + 1].game_id
                 /\ preprocessed[k].period_id = preprocessed[k + 1].period_id
                 /\ preprocessed[k].time_seconds = preprocessed[k + 1].time_seconds
                 /\ preprocessed[k].action_id = preprocessed[k + 1].action_id

\* C12 witness: three rows given in descending key order, one of them twice
\* over in its key columns, came out reordered.
C12_Witness ==
    /\ pc = "preprocess_done"
    /\ Len(raw) = 3
    /\ SortKeyLess(raw[3], raw[2]) /\ SortKeyLess(raw[2], raw[1])
    /\ raw[1].action_id # raw[2].action_id
    /\ RawPart(preprocessed[1]) = raw[3]
    /\ RawPart(preprocessed[3]) = raw[1]

\* C13: a second application of preprocess_events returns the frame the
\* first one returned (same rows, same order, same four flags), and the
\* original columns of every row pass through both applications unchanged.
C13_Idempotent ==
    /\ pc = "preprocess_done" => ENABLED PreprocessAgain
    /\ pc = "preprocess_twice" =>
          /\ preprocessed_again = preprocessed
          /\ \A k \in 1..Len(preprocessed) :
                /\ preprocessed_again[k].is_success = (preprocessed[k].result_name = "Successful")
                /\ preprocessed_again[k].is_fail = (preprocessed[k].result_name = "Unsuccessful")
                /\ preprocessed_again[k].is_card = (preprocessed[k].result_name \in CARD_SET)
                /\ RawPart(preprocessed_again[k]) = RawPart(preprocessed[k])
                /\ \E i \in 1..Len(raw) : raw[i] = RawPart(preprocessed[k])

\* C13 witness: the frame sorted twice holds two rows with the same sort key
\* but different contents, given out of order with a third row.
C13_Witness ==
    /\ pc = "preprocess_twice"
    /\ Len(raw) = 3
    /\ SortKeyLess(raw[3], raw[1])
    /\ ~SortKeyLess(raw[1], raw[2]) /\ ~SortKeyLess(raw[2], raw[1])
    /\ raw[1] # raw[2]
    /\ RawPart(preprocessed_again[2]) = raw[1]
    /\ RawPart(preprocessed_again[3]) = raw[2]
    /\ preprocessed_again[1].in_def_third # preprocessed_again[2].in_def_third

(***************************************************************************)
(* Metrics engine: the clearance panic rate of a player without clearances *)
(***************************************************************************)

\* The player of a stats row has no Clearance or Aerial Clearance event.
NoClearanceEvents(r) == ~\E i \in ClrIdx(events) : events[i].player_id = r.key[1]

\* C14: after calculate_clearance_panic and calculate_metrics, every player
\* of the metrics table who has no clearance event has a clearance_panic_rate
\* cell, and the cell is 0.
C14_NoClearanceRateIsZero ==
    pc = "metrics_done" =>
        \A r \in stats.rows :
            NoClearanceEvents(r) =>
                /\ PanicMetric.metric \in stats.cols
                /\ r.cells[PanicMetric.metric] = Zero

(***************************************************************************)
(* Build script: leaderboard and saved artifacts (build_artifacts.py)      *)
(***************************************************************************)

\* The award ids in ascending string order, the order sort_values gives the
\* award_id column.
AwardIdsSorted ==
    <<"aerial_fail", "block_fail", "cannon_shot", "card_per_def", "chicken_chest",
      "clearance_panic", "cross_fail", "danger_foul", "def_third_turnover", "duel_fail",
      "duel_loser_attack", "interception_fail", "offside_line", "second_half_drop",
      "selfish_player", "tackle_fail">>

AwardIdPos(id) == CHOOSE n \in 1..Len(AwardIdsSorted) : AwardIdsSorted[n] = id

\* The rows of a set in frame order; the stats frame is taken in player_id
\* order.
RECURSIVE InFrameOrder(_)
InFrameOrder(S) ==
    IF S = {} THEN <<>>
    ELSE LET first == CHOOSE x \in S : \A y \in S : x.player_id <= y.player_id
         IN  <<first>> \o InFrameOrder(S \ {first})

\* pd.concat(results, ignore_index=True): the rows of the awards one after
\* the other in the order of the configuration.
RECURSIVE ConcatAwards(_, _, _)
ConcatAwards(frame, configs, n) ==
    IF n > Len(configs) THEN <<>>
    ELSE InFrameOrder(AwardRows(frame, configs[n])) \o ConcatAwards(frame, configs, n + 1)

\* The frame compute_award_scores returns, rows in order.
AwardScoresFrame(frame, configs) == ConcatAwards(frame, configs, 1)

\* The rank limit of the leaderboard.
LeaderboardTopN == 10

\* Row a sorts strictly before row b under sort_values(["award_id", "rank"]).
BoardLess(a, b) ==
    \/ AwardIdPos(a.award_id) < AwardIdPos(b.award_id)
    \/ a.award_id = b.award_id /\ a.rank < b.rank

\* Position of row i of df after the stable sort on (award_id, rank).
BoardPos(df, i) ==
    1 + Cardinality({j \in 1..Len(df) : BoardLess(df[j], df[i])})
      + Cardinality({j \in 1..Len(df) :
                        j < i /\ ~BoardLess(df[j], df[i]) /\ ~BoardLess(df[i], df[j])})

\* award_scores[award_scores["rank"] <= 10]
TopRows(frame) == SelectSeq(frame, LAMBDA x : x.rank <= LeaderboardTopN)

\* The position sort_values(["award_id", "rank"]) gives each row of df.
BoardPositions(df) == [i \in 1..Len(df) |-> BoardPos(df, i)]

\* The rows of df laid out at their positions.
AtPositions(df, pos) == [k \in 1..Len(df) |-> df[CHOOSE i \in 1..Len(df) : pos[i] = k]]

\* Number of players in the stats table of the build run.
BoardPlayers == 11

\* Tackle and block counts of player p: the tackle fail rate is p/12, or 1 for
\* a player who failed every tackle; every player has 3 blocks.
BoardStatsRow(p, allfail) ==
    [key |-> <<p, "Kim", "Ulsan">>,
     cells |-> [c \in {"tackle_attempt", "tackle_fail", "block_attempt", "block_fail"} |->
                  CASE c = "tackle_attempt" -> 12
                    [] c = "tackle_fail" -> IF allfail THEN 12 ELSE p
                    [] c = "block_attempt" -> 3
                    [] c = "block_fail" -> p % 3]]

InitBoard ==
    /\ pc = "award_metrics"
    /\ \E f \in [1..BoardPlayers -> BOOLEAN] :
          player_stats =
              [cols |-> {"tackle_attempt", "tackle_fail", "block_attempt", "block_fail"},
               rows |-> {BoardStatsRow(p, f[p]) : p \in 1..BoardPlayers}]
    /\ award_configs = AWARDS
    /\ stats = NoTable
    /\ award_scores = NoTable
    /\ award_cols = NoTable
    /\ leaderboard = NoTable
    /\ saved = NoTable
    /\ possession_out = NoTable
    /\ possession_in = NoTable
    /\ attack_stats = NoTable
    /\ def_third_turnover = NoTable
    /\ disk = NoTable
    /\ run = NoTable
    /\ events = NoTable
    /\ panic_m = NoTable
    /\ clearance_panic = NoTable
    /\ panic_cols = NoTable
    /\ zone_in = NoTable
    /\ zone_out = NoTable
    /\ zone_fallback = NoTable
    /\ zone_impl = NoTable
    /\ events_with_zones = NoTable
    /\ team_zone_df = NoTable
    /\ player_zone_activity = NoTable
    /\ league_avg = NoTable
    /\ raw = NoTable
    /\ preprocessed = NoTable
    /\ preprocessed_again = NoTable
    /\ second_half_drop = NoTable

\* Line 69: leaderboard = award_scores[award_scores["rank"] <= 10]
\*                            .sort_values(["award_id", "rank"])
CreateLeaderboard ==
    /\ pc = "award_done"
    /\ \E frame \in {AwardScoresFrame(stats, award_configs)} :
       \E top \in {TopRows(frame)} :
       \E pos \in {BoardPositions(top)} :
          leaderboard' = AtPositions(top, pos)
    /\ pc' = "board_created"
    /\ UNCHANGED <<zone_in, zone_out, events, panic_m, clearance_panic, player_stats,
                   stats, award_configs, award_scores, raw, preprocessed,
                   preprocessed_again, zone_fallback, zone_impl, events_with_zones,
                   team_zone_df, player_zone_activity, league_avg, second_half_drop,
                   panic_cols, award_cols, saved,
                   run,
                   disk,
                   def_third_turnover,
                   attack_stats,
                   possession_in,
                   possession_out>>

\* Lines 72-83: profiles = player_stats_with_metrics.copy(), then
\* save_artifact(player_stats_with_metrics, "awards_player.parquet"),
\* save_artifact(award_scores, "leaderboard.parquet"),
\* save_artifact(profiles, "profiles.parquet").
SaveArtifacts ==
    /\ pc = "board_created"
    /\ saved' = [f \in {"awards_player.parquet", "leaderboard.parquet", "profiles.parquet"} |->
                    IF f = "leaderboard.parquet"
                    THEN AwardScoresFrame(stats, award_configs)
                    ELSE stats]
    /\ pc' = "board_saved"
    /\ UNCHANGED <<zone_in, zone_out, events, panic_m, clearance_panic, player_stats,
                   stats, award_configs, award_scores, raw, preprocessed,
                   preprocessed_again, zone_fallback, zone_impl, events_with_zones,
                   team_zone_df, player_zone_activity, league_avg, second_half_drop,
                   panic_cols, award_cols, leaderboard,
                   run,
                   disk,
                   def_third_turnover,
                   attack_stats,
                   possession_in,
                   possession_out>>

NextBoard == AwardMetrics \/ ComputeAwardScores \/ CreateLeaderboard \/ SaveArtifacts

SpecBoard == InitBoard /\ [][NextBoard]_vars

\* The frame holds exactly the award-score rows with rank <= 10, ordered by
\* award_id and then rank.
IsTopTenBoard(out) ==
    /\ \A k \in 1..Len(out) : out[k].rank <= 10
    /\ {out[k] : k \in 1..Len(out)} = {x \in award_scores : x.rank <= 10}
    /\ Len(out) = Cardinality({x \in award_scores : x.rank <= 10})
    /\ \A k \in 1..(Len(out) - 1) :
          \/ AwardIdPos(out[k].award_id) < AwardIdPos(out[k + 1].award_id)
          \/ /\ out[k].award_id = out[k + 1].award_id
             /\ out[k].rank <= out[k + 1].rank

\* C15: the leaderboard the build writes (leaderboard.parquet) holds exactly
\* the award-score rows with rank <= 10, ordered by award_id and then rank, and
\* no row with rank > 10.
C15_LeaderboardIsTopTen ==
    pc = "board_saved" => IsTopTenBoard(saved["leaderboard.parquet"])

(***************************************************************************)
(* Ranking engine: awards without rows                                     *)
(***************************************************************************)

\* No row of the stats table passes the award's minimum-attempts filter.
NoSurvivor(a) ==
    IF attempt_cols[a.metric] \in stats.cols
    THEN \A r \in stats.rows : r.cells[attempt_cols[a.metric]] < a.min_attempts
    ELSE stats.rows = {}

\* C16: compute_award_scores completes for every stats table; an award whose
\* metric column is absent or whose filter leaves no player has no row in the
\* result, every other award has a row for each player that passes its
\* filter, and a result without rows still has the seven columns award_id,
\* player_id, player_name_ko, team_name_ko, score, rank, percentile.
C16_EmptyAwardsSkipped ==
    /\ pc = "award_scores" => ENABLED ComputeAwardScores
    /\ pc = "award_done" =>
          /\ \A n \in 1..Len(award_configs) :
                LET a == award_configs[n] IN
                IF a.metric \notin stats.cols THEN RowsOf(a) = {}
                ELSE IF NoSurvivor(a) THEN RowsOf(a) = {}
                ELSE /\ RowsOf(a) # {}
                     /\ \A r \in stats.rows :
                           (attempt_cols[a.metric] \in stats.cols
                              => r.cells[attempt_cols[a.metric]] >= a.min_attempts)
                               => \E x \in RowsOf(a) : x.player_id = r.key[1]
          /\ award_scores = {} =>
                award_cols = <<"award_id", "player_id", "player_name_ko", "team_name_ko",
                               "score", "rank", "percentile">>

\* C16 witness: no player reaches the 5 tackles of the tackle_fail award and
\* the clearance_panic_rate column is absent, and the block_fail award is
\* scored all the same.
C16_Witness ==
    /\ pc = "award_done"
    /\ "tackle_fail_rate" \in stats.cols
    /\ "clearance_panic_rate" \notin stats.cols
    /\ \A r \in stats.rows : r.cells["tackle_attempt"] < 5
    /\ ~\E x \in award_scores : x.award_id \in {"tackle_fail", "clearance_panic"}
    /\ \E x \in award_scores : x.award_id = "block_fail" /\ x.rank = 1

(***************************************************************************)
(* Second half drop: calculate_second_half_drop                            *)
(***************************************************************************)

\* def_actions = df[df["type_name"].isin(DEF_ACTIONS)]
DefIdx(df) == {i \in 1..Len(df) : df[i].type_name \in DEF_ACTIONS}

\* is_def_fail = (result_name == "Unsuccessful") | (type_name == "Error")
IsDefFail(e) == e.result_name = "Unsuccessful" \/ e.type_name = "Error"

\* One group of g: the defensive actions of one player key in one period.
PeriodGroup(df, k, p) ==
    {i \in DefIdx(df) : PlayerKey(df[i]) = k /\ df[i].period_id = p}

\* g["fail_rate"] = g["def_fails"] / g["def_actions"]
FailRate(df, k, p) ==
    Div(Cardinality({i \in PeriodGroup(df, k, p) : IsDefFail(df[i])}),
        Cardinality(PeriodGroup(df, k, p)))

PivotCellNaN(df, k, p) ==
    IF PeriodGroup(df, k, p) = {} THEN NaN ELSE FailRate(df, k, p)

\* One cell of p = g.pivot_table(index=player key, columns="period_id",
\* values="fail_rate", fill_value=0): 0 where the player has no group.
PivotCell(df, k, p) ==
    IF PeriodGroup(df, k, p) = {} THEN Zero ELSE FailRate(df, k, p)

\* The period columns of the pivot table: the periods with a defensive action.
PivotColumns(df) == {df[i].period_id : i \in DefIdx(df)}

\* Float subtraction x - y; NaN when an operand is NaN.
FracSub(x, y) ==
    IF x = NaN \/ y = NaN THEN NaN
    ELSE Frac(x[1] * y[2] - y[1] * x[2], x[2] * y[2])

\* calculate_second_half_drop(df): the rows of the returned table; pd.DataFrame()
\* (no rows) when there is no defensive action or a column 1 or 2 is missing.
calculate_second_half_drop(df) ==
    IF DefIdx(df) = {} THEN {}
    ELSE IF Cardinality(PivotColumns(df) \cap {1, 2}) = 2
    THEN {[player_id |-> k[1], player_name_ko |-> k[2], team_name_ko |-> k[3],
           first_half_rate |-> PivotCell(df, k, 1),
           second_half_rate |-> PivotCell(df, k, 2),
           second_half_drop |-> FracSub(PivotCell(df, k, 2), PivotCell(df, k, 1)),
           total_actions |-> Cardinality({i \in DefIdx(df) : PlayerKey(df[i]) = k})] :
             k \in {PlayerKey(df[i]) : i \in DefIdx(df)}}
    ELSE {}

\* Periods tried: the two halves and the first period of extra time.
DropPeriods == {<<1, 1>>, <<1, 2>>, <<1, 3>>}

\* Plays tried: a won and a lost tackle, an Error (a fail whatever its
\* result), and a pass, which is no defensive action.
DropPlays ==
    {Play("Tackle", "Successful", TRUE, 1, "Kim", 1, "Ulsan"),
     Play("Tackle", "Unsuccessful", TRUE, 1, "Kim", 1, "Ulsan"),
     Play("Error", "Successful", TRUE, 2, "Lee", 2, "Jeonbuk"),
     Play("Duel", "Successful", FALSE, 2, "Lee", 2, "Jeonbuk"),
     Play("Pass", "Unsuccessful", FALSE, 2, "Lee", 2, "Jeonbuk")}

DropEvents == {Event(gp, 0, p) : gp \in DropPeriods, p \in DropPlays}

InitDrop ==
    /\ pc = "drop_start"
    /\ IsLogOver(events, DropEvents)
    /\ second_half_drop = NoTable
    /\ panic_m = NoTable
    /\ clearance_panic = NoTable
    /\ panic_cols = NoTable
    /\ player_stats = NoTable
    /\ stats = NoTable
    /\ award_configs = NoTable
    /\ award_scores = NoTable
    /\ award_cols = NoTable
    /\ leaderboard = NoTable
    /\ saved = NoTable
    /\ possession_out = NoTable
    /\ possession_in = NoTable
    /\ attack_stats = NoTable
    /\ def_third_turnover = NoTable
    /\ disk = NoTable
    /\ run = NoTable
    /\ zone_in = NoTable
    /\ zone_out = NoTable
    /\ zone_fallback = NoTable
    /\ zone_impl = NoTable
    /\ events_with_zones = NoTable
    /\ team_zone_df = NoTable
    /\ player_zone_activity = NoTable
    /\ league_avg = NoTable
    /\ raw = NoTable
    /\ preprocessed = NoTable
    /\ preprocessed_again = NoTable

\* second_half_drop = calculate_second_half_drop(preprocessed)
CalculateSecondHalfDrop ==
    /\ pc = "drop_start"
    /\ second_half_drop' = calculate_second_half_drop(events)
    /\ pc' = "drop_done"
    /\ UNCHANGED <<zone_in, zone_out, events, panic_m, clearance_panic, player_stats,
                   stats, award_configs, award_scores, raw, preprocessed,
                   preprocessed_again, zone_fallback, zone_impl, events_with_zones,
                   team_zone_df, player_zone_activity, league_avg, panic_cols,
                   award_cols, leaderboard, saved,
                   run,
                   disk,
                   def_third_turnover,
                   attack_stats,
                   possession_in,
                   possession_out>>

NextDrop == CalculateSecondHalfDrop

SpecDrop == InitDrop /\ [][NextDrop]_vars

\* The defensive actions of player key k in period p, and how many failed.
DefActionsIn(k, p) ==
    {i \in 1..Len(events) :
        /\ events[i].type_name \in DEF_ACTIONS
        /\ <<events[i].player_id, events[i].player_name_ko, events[i].team_name_ko>> = k
        /\ events[i].period_id = p}

DefFailsIn(k, p) ==
    {i \in DefActionsIn(k, p) :
        events[i].result_name = "Unsuccessful" \/ events[i].type_name = "Error"}

\* The player keys with defensive actions in period p.
ActiveIn(p) ==
    {<<events[i].player_id, events[i].player_name_ko, events[i].team_name_ko>> :
        i \in {j \in 1..Len(events) : events[j].type_name \in DEF_ACTIONS
                                      /\ events[j].period_id = p}}

\* The table has one row for player key k, with fail rate 0 for the half
\* without actions and the drop against that zero baseline.
OneHalfRow(k) ==
    /\ Cardinality({r \in second_half_drop :
                      <<r.player_id, r.player_name_ko, r.team_name_ko>> = k}) = 1
    /\ \A r \in second_half_drop :
          <<r.player_id, r.player_name_ko, r.team_name_ko>> = k =>
              IF k \in ActiveIn(1)
              THEN /\ r.second_half_rate = Zero
                   /\ r.first_half_rate[1] * Cardinality(DefActionsIn(k, 1))
                        = Cardinality(DefFailsIn(k, 1)) * r.first_half_rate[2]
                   /\ r.second_half_drop = <<-(r.first_half_rate[1]), r.first_half_rate[2]>>
              ELSE /\ r.first_half_rate = Zero
                   /\ r.second_half_rate[1] * Cardinality(DefActionsIn(k, 2))
                        = Cardinality(DefFailsIn(k, 2)) * r.second_half_rate[2]
                   /\ r.second_half_drop = r.second_half_rate

\* The player keys with defensive actions in exactly one of periods 1 and 2.
OneHalfOnly == (ActiveIn(1) \ ActiveIn(2)) \cup (ActiveIn(2) \ ActiveIn(1))

\* C17 as stated: every player with defensive actions in only one of periods
\* 1 and 2 is kept, with fail rate 0 for the missing half (drop -r for a
\* player of period 1 only, +r for a player of period 2 only).
C17_OneHalfZeroBaseline ==
    pc = "drop_done" => \A k \in OneHalfOnly : OneHalfRow(k)

\* C17 amended: the convention holds when the defensive actions of the log
\* cover both period 1 and period 2 (some player in each); when one of the two
\* periods has no defensive action at all the returned table is empty.
C17_OneHalfZeroBaselineWhenBothPeriods ==
    pc = "drop_done" =>
        IF ActiveIn(1) # {} /\ ActiveIn(2) # {}
        THEN \A k \in OneHalfOnly : OneHalfRow(k)
        ELSE second_half_drop = {}

\* C17 witness: Kim tackled only in the first half and lost a tackle there,
\* Lee defended only in the second half; both are in the table, Kim with a
\* negative drop and Lee with a positive one.
C17_Witness ==
    /\ pc = "drop_done"
    /\ \E r, q \in second_half_drop :
          /\ r.player_id = 1 /\ <<1, "Kim", "Ulsan">> \in ActiveIn(1) \ ActiveIn(2)
          /\ r.first_half_rate[1] > 0 /\ r.second_half_rate = Zero
          /\ r.second_half_drop[1] < 0
          /\ q.player_id = 2 /\ <<2, "Lee", "Jeonbuk">> \in ActiveIn(2) \ ActiveIn(1)
          /\ q.second_half_drop = <<1, 1>>

(***************************************************************************)
(* Pattern pipeline: what counts as a success                              *)
(***************************************************************************)

\* str.lower() on the type and result names of the events tried.
Lower(str) ==
    CASE str = "Goal" -> "goal"
      [] str = "Successful" -> "successful"
      [] str = "Unsuccessful" -> "unsuccessful"
      [] str = "On Target" -> "on target"
      [] str = "Shot" -> "shot"
      [] str = "Pass" -> "pass"
      [] str = "Goal Kick" -> "goal kick"
      [] OTHER -> str

\* analysis_utils._is_success on a string outcome: for a shot only "goal" is
\* a success; for every other type "successful", "success", "1" or "true".
_is_success(outcome_value, event_type) ==
    IF Lower(event_type) = "shot"
    THEN Lower(outcome_value) \in {"goal"}
    ELSE Lower(outcome_value) \in {"successful", "success", "1", "true"}

\* The successes among a group of zoned events under the type-conditional
\* definition.
TypedSuccesses(rows) ==
    Cardinality({e \in rows : _is_success(e.result_name, e.type_name)})

\* C18: in the team zone profile, the player zone activity and the league
\* zone average, the successes of a group are its shots with result Goal and
\* its events of any other type with is_success true.
C18_ShotSuccessIsGoal ==
    pc = "pattern_done" =>
        /\ \A r \in team_zone_df :
              LET grp == {e \in events_with_zones :
                            /\ e.team_name_ko = r.team_name_ko /\ e.zone = r.zone
                            /\ e.type_name = r.event_type}
              IN  r.success_rate = Frac(TypedSuccesses(grp), Cardinality(grp))
        /\ \A r \in player_zone_activity :
              LET grp == {e \in events_with_zones :
                            /\ e.player_id = r.player_id /\ e.team_name_ko = r.team_name_ko
                            /\ e.zone = r.zone /\ e.type_name = r.type_name}
              IN  r.success_count = TypedSuccesses(grp)
        /\ \A r \in league_avg :
              LET grp == {e \in events_with_zones :
                            e.zone = r.zone /\ e.type_name = r.type_name}
              IN  r.league_success = TypedSuccesses(grp)

(***************************************************************************)
(* Zone binner: feature_engineering.add_zone_columns against the fallback  *)
(***************************************************************************)

\* The fallback add_zone_columns of the pattern script on the same frame.
AddZoneColumnsFallback ==
    /\ pc = "zone_done"
    /\ zone_fallback' = add_zone_columns_fallback(zone_in)
    /\ pc' = "zone_both_done"
    /\ UNCHANGED <<zone_in, zone_out, events, panic_m, clearance_panic, player_stats,
                   stats, award_configs, award_scores, raw, preprocessed,
                   preprocessed_again, zone_impl, events_with_zones, team_zone_df,
                   player_zone_activity, league_avg, second_half_drop, panic_cols,
                   award_cols, leaderboard, saved,
                   run,
                   disk,
                   def_third_turnover,
                   attack_stats,
                   possession_in,
                   possession_out>>

NextZoneBoth == AddZoneColumns \/ AddZoneColumnsFallback

SpecZoneBoth == InitZone /\ [][NextZoneBoth]_vars

\* C19: on every coordinate pair the two add_zone_columns give the same
\* zone_x, zone_y and zone, so the zone passes or fails the not-null filter
\* alike.
C19_SameZonesAsFallback ==
    pc = "zone_both_done" =>
        \A i \in 1..Len(zone_in) :
            /\ zone_out[i].zone_x = zone_fallback[i].zone_x
            /\ zone_out[i].zone_y = zone_fallback[i].zone_y
            /\ zone_out[i].zone = zone_fallback[i].zone
            /\ NotNa(zone_out[i].zone) = NotNa(zone_fallback[i].zone)

(***************************************************************************)
(* Clearance panic: event logs without shots or without clearances         *)
(***************************************************************************)

\* The (game_id, period_id) group of event i.
GroupOf(df, i) == <<df[i].game_id, df[i].period_id>>

\* Clearance i is in a group that has a shot at or after its time, which is
\* what merge_asof(direction="forward") needs to give it a shot.
HasForwardShot(df, i) ==
    \E j \in ShotsGroup(df, GroupOf(df, i)) : df[j].time_seconds >= df[i].time_seconds

\* Clearance i has a row in the concatenated merge frame.
InMerge(i) == \E x \in panic_m : x.row.action_id_clr = events[i].action_id

\* C20: calculate_clearance_panic returns on every event log.  Without
\* clearances, without shots, or with nothing to correlate it returns the empty
\* table with the five columns; a group of clearances without shots adds no row
\* while the clearances of every other group that have a later shot are still
\* counted for their player.
C20_PanicToleratesMissingShots ==
    /\ pc = "panic_start" => ENABLED CalculateClearancePanic
    /\ pc = "panic_done" =>
          /\ panic_cols = <<"player_id", "player_name_ko", "team_name_ko",
                            "clearance", "concede_shot10">>
          /\ (\/ ClrIdx(events) = {}
              \/ ShotIdx(events) = {}
              \/ \A i \in ClrIdx(events) : ~HasForwardShot(events, i))
                 => clearance_panic = {}
          /\ \A i \in ClrIdx(events) :
                /\ ShotsGroup(events, GroupOf(events, i)) = {} => ~InMerge(i)
                /\ HasForwardShot(events, i) => InMerge(i)
          /\ \A r \in clearance_panic :
                r.clearance =
                    Cardinality({i \in ClrIdx(events) :
                                    /\ events[i].player_id = r.player_id
                                    /\ HasForwardShot(events, i)})
          /\ \A i \in ClrIdx(events) :
                HasForwardShot(events, i) =>
                    \E r \in clearance_panic : r.player_id = events[i].player_id

\* A log in which one group of clearances has no shot and another group is
\* scored.
C20_Witness ==
    /\ pc = "panic_done"
    /\ \E i \in ClrIdx(events) : ShotsGroup(events, GroupOf(events, i)) = {}
    /\ \E i \in ClrIdx(events) : HasForwardShot(events, i)
    /\ clearance_panic # {}

(***************************************************************************)
(* Aggregator: the columns of categories without events                    *)
(***************************************************************************)

\* Category n has no matching event in the whole log.
CategoryEmpty(df, n) == CategoryIdx(df, Categories[n].name) = {}

\* The columns of every category without events are absent and those of every
\* category with events are present.
OnlyNonEmptyCategories(df, frame) ==
    \A n \in 1..Len(Categories) :
        IF CategoryEmpty(df, n) THEN CatCols(Categories[n]) \cap frame.cols = {}
        ELSE CatCols(Categories[n]) \subseteq frame.cols

Step(kind, name) == [kind |-> kind, name |-> name]

\* The statements of build_artifacts.py, lines 25-89, in program order.
BuildArtifactsSteps ==
    <<Step("load", "raw"), Step("load", "match_info"),
      Step("compute", "preprocessed"), Step("compute", "player_stats"),
      Step("compute", "clearance_panic"), Step("compute", "second_half_drop"),
      Step("compute", "def_third_turnover"), Step("compute", "attack_stats"),
      Step("compute", "player_stats_with_metrics"), Step("compute", "award_scores"),
      Step("compute", "leaderboard"), Step("compute", "profiles"),
      Step("save", "awards_player.parquet"), Step("save", "leaderboard.parquet"),
      Step("save", "profiles.parquet"),
      Step("compute", "team_stats"), Step("save", "awards_team.parquet")>>

\* The statements of build_pattern_artifacts.py, lines 161-276, in program order.
BuildPatternSteps ==
    <<Step("load", "raw"), Step("load", "match_info"),
      Step("compute", "preprocessed"), Step("compute", "events_filtered"),
      Step("compute", "events_with_zones"), Step("compute", "events_with_zones notna"),
      Step("compute", "events_light"), Step("save", "events_light.parquet"),
      Step("compute", "team_zone_profile"), Step("compute", "team_zone_success"),
      Step("compute", "team_zone_df"), Step("save", "team_zone_profile.parquet"),
      Step("compute", "player_zone_activity"), Step("save", "player_zone_activity.parquet"),
      Step("compute", "league_avg"), Step("compute", "avg_events_per_team"),
      Step("compute", "league_avg merge"), Step("save", "league_zone_average.parquet")>>

Scripts == {"build_artifacts", "build_pattern_artifacts"}

StepsOf(script) ==
    IF script = "build_artifacts" THEN BuildArtifactsSteps ELSE BuildPatternSteps

\* The files a script writes with save_artifact.
ArtifactsOf(script) ==
    {StepsOf(script)[i].name : i \in {j \in 1..Len(StepsOf(script)) :
                                          StepsOf(script)[j].kind = "save"}}

\* The statement the run is about to execute.
NextStep == StepsOf(run.script)[run.at + 1]

Running == /\ pc = "run" /\ ~run.failed /\ run.at < Len(StepsOf(run.script))

\* A run starts with an artifacts directory in which each file of the script
\* is absent or left by an earlier run.
InitRun ==
    /\ pc = "run"
    /\ \E s \in Scripts :
          /\ run = [script |-> s, at |-> 0, failed |-> FALSE]
          /\ disk \in [ArtifactsOf(s) -> {"absent", "old"}]
    /\ zone_in = NoTable
    /\ zone_out = NoTable
    /\ events = NoTable
    /\ panic_m = NoTable
    /\ clearance_panic = NoTable
    /\ player_stats = NoTable
    /\ stats = NoTable
    /\ award_configs = NoTable
    /\ award_scores = NoTable
    /\ raw = NoTable
    /\ preprocessed = NoTable
    /\ preprocessed_again = NoTable
    /\ zone_fallback = NoTable
    /\ zone_impl = NoTable
    /\ events_with_zones = NoTable
    /\ team_zone_df = NoTable
    /\ player_zone_activity = NoTable
    /\ league_avg = NoTable
    /\ second_half_drop = NoTable
    /\ panic_cols = NoTable
    /\ award_cols = NoTable
    /\ leaderboard = NoTable
    /\ saved = NoTable
    /\ possession_out = NoTable
    /\ possession_in = NoTable
    /\ attack_stats = NoTable
    /\ def_third_turnover = NoTable

RunUnchanged ==
    UNCHANGED <<pc, zone_in, zone_out, events, panic_m, clearance_panic, player_stats,
                stats, award_configs, award_scores, raw, preprocessed,
                preprocessed_again, zone_fallback, zone_impl, events_with_zones,
                team_zone_df, player_zone_activity, league_avg, second_half_drop,
                panic_cols, award_cols, leaderboard, saved,
                   def_third_turnover,
                   attack_stats,
                   possession_in,
                   possession_out>>

\* load_raw_data() / load_match_info() returns.
RunLoad ==
    /\ Running /\ NextStep.kind = "load"
    /\ run' = [run EXCEPT !.at = @ + 1]
    /\ UNCHANGED disk
    /\ RunUnchanged

\* A computation statement completes.
RunCompute ==
    /\ Running /\ NextStep.kind = "compute"
    /\ run' = [run EXCEPT !.at = @ + 1]
    /\ UNCHANGED disk
    /\ RunUnchanged

\* save_artifact(df, filename): df.to_parquet writes the file, replacing
\* whatever was there.
RunSave ==
    /\ Running /\ NextStep.kind = "save"
    /\ run' = [run EXCEPT !.at = @ + 1]
    /\ disk' = [disk EXCEPT ![NextStep.name] = "new"]
    /\ RunUnchanged

\* The statement raises (FileNotFoundError in a load, any exception of pandas
\* in a computation or a save): nothing catches it, the script ends there.
RunRaise ==
    /\ Running
    /\ run' = [run EXCEPT !.failed = TRUE]
    /\ UNCHANGED disk
    /\ RunUnchanged

NextRun == RunLoad \/ RunCompute \/ RunSave \/ RunRaise

SpecRun == InitRun /\ [][NextRun]_vars

\* The statements the run has completed.
Completed == 1..run.at

KindAt(i) == StepsOf(run.script)[i].kind

\* Every completed load came before every computation statement.
LoadsFirst ==
    \A i \in Completed : KindAt(i) = "load" =>
        \A j \in 1..Len(StepsOf(run.script)) : KindAt(j) = "compute" => i < j

\* Every completed save came after every computation statement.
SavesLast ==
    \A i \in Completed : KindAt(i) = "save" =>
        \A j \in 1..Len(StepsOf(run.script)) : KindAt(j) = "compute" => j < i

\* The run raised in a computation statement.
FailedInComputation == run.failed /\ NextStep.kind = "compute"

\* C22: in a build run every load precedes all computation, every save
\* follows all computation, and a run that fails in a computation step has
\* written no artifact.
C22_LoadsThenComputeThenSaves ==
    pc = "run" =>
        /\ LoadsFirst
        /\ SavesLast
        /\ FailedInComputation => \A f \in DOMAIN disk : disk[f] # "new"

(***************************************************************************)
(* Clearance panic: which clearances the clearance column counts           *)
(***************************************************************************)

\* The clearances of a (player_id, name, team) key that lie in a group with at
\* least one shot.
ClearancesInShotGroups(df, key) ==
    {i \in ClrIdx(df) : /\ PlayerKey(df[i]) = key
                        /\ ShotsGroup(df, GroupOf(df, i)) # {}}

\* C23: for every player, the clearance count of calculate_clearance_panic is
\* the number of the player's clearances in groups that contain a shot, a
\* clearance with no later shot in its period included.
C23_ClearanceCountsEveryClearance ==
    pc = "panic_done" =>
        /\ \A r \in clearance_panic :
              r.clearance =
                  Cardinality(ClearancesInShotGroups(
                      events, <<r.player_id, r.player_name_ko, r.team_name_ko>>))
        /\ \A i \in ClrIdx(events) :
              ShotsGroup(events, GroupOf(events, i)) # {} =>
                  \E r \in clearance_panic : r.player_id = events[i].player_id

(***************************************************************************)
(* Build pipeline: aggregate, special metrics, attack statistics,          *)
(* calculate_metrics with every table, compute_award_scores                *)
(***************************************************************************)

\* pd.DataFrame(): no columns, no rows.
EmptyFrame == [cols |-> {}, rows |-> {}]

\* turnover = df[type_name in (Pass, Carry) & in_def_third]
TurnoverIdx(df) ==
    {i \in 1..Len(df) : df[i].type_name \in {"Pass", "Carry"} /\ df[i].in_def_third}

\* calculate_def_third_turnover: one row per player key with a pass or carry
\* in the defensive third.
calculate_def_third_turnover(df) ==
    LET idx == TurnoverIdx(df)
        of(k) == {i \in idx : PlayerKey(df[i]) = k}
    IN  {[player_id |-> k[1], player_name_ko |-> k[2], team_name_ko |-> k[3],
          def_third_attempts |-> Cardinality(of(k)),
          def_third_fails |-> Cardinality({i \in of(k) : df[i].is_fail}),
          def_third_turnover_rate |->
              Div(Cardinality({i \in of(k) : df[i].is_fail}), Cardinality(of(k)))] :
            k \in {PlayerKey(df[i]) : i \in idx}}

\* The eight groupbys of aggregate_attack_stats in the order they are
\* appended to results, with the columns each one contributes (cross_success
\* is replaced by cross_fail before the append).
AttackCategories ==
    <<[name |-> "shots",
       cols |-> <<<<"total_shots", "count">>, <<"off_target_shots", "off_target">>>>],
      [name |-> "penalty_box",
       cols |-> <<<<"penalty_box_shots", "count">>, <<"penalty_box_miss", "box_miss">>>>],
      [name |-> "offsides", cols |-> <<<<"offsides", "count">>>>],
      [name |-> "pass_received", cols |-> <<<<"pass_received", "count">>>>],
      [name |-> "pass_given", cols |-> <<<<"pass_given", "count">>>>],
      [name |-> "crosses",
       cols |-> <<<<"total_crosses", "count">>, <<"cross_fail", "not_successful">>>>],
      [name |-> "duels",
       cols |-> <<<<"total_duels_attack", "count">>, <<"duel_fail_attack", "is_fail">>>>],
      [name |-> "aerial", cols |-> <<<<"aerial_fail", "count">>>>]>>

IsAttackShot(e) == e.type_name \in {"Shot", "Shot_Freekick"}

\* The row filter of each groupby; coordinates are in hundredths of a metre.
InAttackCategory(name, e) ==
    CASE name = "shots" -> IsAttackShot(e)
      [] name = "penalty_box" ->
            /\ IsAttackShot(e)
            /\ e.start_x >= 8850 /\ e.start_y >= 1384 /\ e.start_y <= 5416
      [] name = "offsides" -> e.type_name = "Offside"
      [] name = "pass_received" -> e.type_name = "Pass Received"
      [] name = "pass_given" -> e.type_name = "Pass"
      [] name = "crosses" -> e.type_name = "Cross"
      [] name = "duels" -> e.type_name = "Duel"
      [] name = "aerial" -> e.type_name = "Duel" /\ e.is_fail

AttackIdx(df, name) == {i \in 1..Len(df) : InAttackCategory(name, df[i])}

\* The "if len(...) > 0" in front of each append; the aerial groupby is
\* guarded by the duels, not by the lost duels.
AttackAppended(df, name) ==
    IF name = "aerial" THEN AttackIdx(df, "duels") # {} ELSE AttackIdx(df, name) # {}

AttackResults(df) ==
    {n \in 1..Len(AttackCategories) : AttackAppended(df, AttackCategories[n].name)}

\* One aggregated cell of a groupby.
AttackCell(df, idx, how) ==
    CASE how = "count" -> Cardinality(idx)
      [] how = "off_target" -> Cardinality({i \in idx : df[i].result_name = "Off Target"})
      [] how = "box_miss" ->
            Cardinality({i \in idx : df[i].result_name \notin {"Goal", "On Target"}})
      [] how = "not_successful" ->
            Cardinality({i \in idx : df[i].result_name # "Successful"})
      [] how = "is_fail" -> Cardinality({i \in idx : df[i].is_fail})

\* player_games: the number of distinct games of a player key.
PlayerGames(df, k) ==
    Cardinality({df[i].game_id : i \in {j \in 1..Len(df) : PlayerKey(df[j]) = k}})

\* The metric columns computed at the end: metric := num / den, guarded by
\* np.where(den > 0, ., 0) for receive_to_give_ratio only.
AttackMetrics ==
    <<[metric |-> "off_target_per_game", num |-> "off_target_shots", den |-> "games"],
      [metric |-> "penalty_box_miss_per_game", num |-> "penalty_box_miss", den |-> "games"],
      [metric |-> "offside_per_game", num |-> "offsides", den |-> "games"],
      [metric |-> "receive_to_give_ratio", num |-> "pass_received", den |-> "pass_given"],
      [metric |-> "cross_fail_per_game", num |-> "cross_fail", den |-> "games"],
      [metric |-> "duel_fail_per_game_attack", num |-> "duel_fail_attack", den |-> "games"],
      [metric |-> "aerial_fail_per_game", num |-> "aerial_fail", den |-> "games"]>>

\* aggregate_attack_stats: outer merge of the appended groupbys on the player
\* key, left merge with player_games, zero fill, then the metric columns whose
\* two inputs are columns of the frame.
aggregate_attack_stats(df) ==
    LET res == AttackResults(df)
        cat(n) == AttackCategories[n]
        idxOf(n, k) == {i \in AttackIdx(df, cat(n).name) : PlayerKey(df[i]) = k}
        keys == UNION {{PlayerKey(df[i]) : i \in AttackIdx(df, cat(n).name)} : n \in res}
        counts == UNION {{cat(n).cols[j][1] : j \in 1..Len(cat(n).cols)} : n \in res}
        base == counts \cup {"games"}
        how(c) == LET n == CHOOSE m \in res : \E j \in 1..Len(cat(m).cols) : cat(m).cols[j][1] = c
                      j == CHOOSE i \in 1..Len(cat(n).cols) : cat(n).cols[i][1] = c
                  IN  <<n, cat(n).cols[j][2]>>
        count(c, k) == IF c = "games" THEN PlayerGames(df, k)
                       ELSE AttackCell(df, idxOf(how(c)[1], k), how(c)[2])
        mets == {n \in 1..Len(AttackMetrics) :
                    AttackMetrics[n].num \in base /\ AttackMetrics[n].den \in base}
        metOf(c) == AttackMetrics[CHOOSE n \in mets : AttackMetrics[n].metric = c]
        value(c, k) ==
            IF c \in base THEN count(c, k)
            ELSE IF metOf(c).den = "games"
                 THEN Div(count(metOf(c).num, k), count("games", k))
                 ELSE Ratio(count(metOf(c).num, k), count(metOf(c).den, k))
        cols == base \cup {AttackMetrics[n].metric : n \in mets}
    IN  IF res = {} THEN EmptyFrame
        ELSE [cols |-> cols,
              rows |-> {[key |-> k, cells |-> [c \in cols |-> value(c, k)]] : k \in keys}]

\* The float-valued columns of the merged tables; their missing cell is NaN,
\* that of a count column is NA.
FloatColumns ==
    {"second_half_drop", "first_half_rate", "second_half_rate", "def_third_turnover_rate"}
        \cup {AttackMetrics[n].metric : n \in 1..Len(AttackMetrics)}

MissingCell(c) == IF c \in FloatColumns THEN NaN ELSE NA

ZeroCell(c) == IF c \in FloatColumns THEN Zero ELSE 0

\* A table of records as the right side of a merge: its player_id, its
\* player key and the cells of the selected columns.
RightOfRecords(table, cols) ==
    {[player_id |-> q.player_id,
      key |-> <<q.player_id, q.player_name_ko, q.team_name_ko>>,
      cells |-> [c \in cols |-> q[c]]] : q \in table}

RightOfFrame(frame, cols) ==
    {[player_id |-> q.key[1], key |-> q.key, cells |-> [c \in cols |-> q.cells[c]]] :
        q \in frame.rows}

\* stats.merge(right[["player_id"] + cols], on="player_id", how="left"): every
\* stats row once per right row with the same player_id, or once with missing
\* cells when there is none.
LeftMerge(frame, right, cols) ==
    LET all == frame.cols \cup cols
        ext(r, key, cells) ==
            [key |-> r.key, right |-> <<r.right, key>>,
             cells |-> [c \in all |-> IF c \in cols THEN cells[c] ELSE r.cells[c]]]
        matches(r) == {q \in right : q.player_id = r.key[1]}
    IN  [cols |-> all,
         rows |-> UNION {IF matches(r) = {}
                         THEN {ext(r, NoRight, [c \in cols |-> MissingCell(c)])}
                         ELSE {ext(r, q.key, q.cells) : q \in matches(r)} :
                         r \in frame.rows}]

\* stats[col] = stats[col].fillna(0) for each of the given columns.
FillColumns(frame, cols) ==
    [cols |-> frame.cols,
     rows |-> {[key |-> r.key, right |-> r.right,
                cells |-> [c \in frame.cols |->
                    IF c \in cols /\ r.cells[c] = MissingCell(c) THEN ZeroCell(c)
                    ELSE r.cells[c]]] : r \in frame.rows}]

\* Lines 81-87: the second-half-drop merge.
MergeSecondHalfDrop(frame, drop) ==
    IF drop = {} THEN frame
    ELSE FillColumns(
             LeftMerge(frame,
                       RightOfRecords(drop, {"second_half_drop", "first_half_rate",
                                             "second_half_rate"}),
                       {"second_half_drop", "first_half_rate", "second_half_rate"}),
             {"second_half_drop"})

\* Lines 90-96: the defensive-third-turnover merge.
MergeDefThirdTurnover(frame, turnover) ==
    IF turnover = {} THEN frame
    ELSE FillColumns(
             LeftMerge(frame,
                       RightOfRecords(turnover, {"def_third_turnover_rate",
                                                 "def_third_attempts", "def_third_fails"}),
                       {"def_third_turnover_rate", "def_third_attempts", "def_third_fails"}),
             {"def_third_turnover_rate"})

\* attack_cols without player_id.
attack_cols ==
    {"off_target_per_game", "penalty_box_miss_per_game", "offside_per_game",
     "receive_to_give_ratio", "cross_fail_per_game", "duel_fail_per_game_attack",
     "aerial_fail_per_game"}

\* Lines 99-115: the attack merge; only the metric columns are taken over, the
\* counts (total_shots, pass_received, ...) stay behind in attack_stats.
MergeAttackStats(frame, attack) ==
    IF attack.rows = {} THEN frame
    ELSE FillColumns(
             LeftMerge(frame, RightOfFrame(attack, attack_cols \cap attack.cols),
                       attack_cols \cap attack.cols),
             attack_cols \cap attack.cols)

\* calculate_metrics(player_stats, clearance_panic, second_half_drop,
\*                   def_third_turnover, attack_stats) as the build script calls it.
calculate_metrics_with(frame, panic, drop, turnover, attack) ==
    MergeAttackStats(
        MergeDefThirdTurnover(
            MergeSecondHalfDrop(calculate_metrics(frame, TableArg(panic)), drop),
            turnover),
        attack)

\* One play of the build pipeline: as Play, with the start coordinates (in
\* hundredths of a metre) from which preprocess_events derives in_def_third.
BuildPlay(type, result, x, y, pid, pname, tid, tname) ==
    Play(type, result, x <= 3500, pid, pname, tid, tname) @@ [start_x |-> x, start_y |-> y]

\* Plays tried: Kim defends and shoots for Ulsan and, after a transfer, shoots
\* and duels for Jeonbuk; Lee has attack-side events and passes in his own
\* third only.
BuildPlays ==
    {BuildPlay("Tackle", "Unsuccessful", 2000, 3000, 1, "Kim", 1, "Ulsan"),
     BuildPlay("Clearance", "Successful", 1000, 3000, 1, "Kim", 1, "Ulsan"),
     BuildPlay("Shot", "Off Target", 9000, 3000, 1, "Kim", 1, "Ulsan"),
     BuildPlay("Shot", "Off Target", 6000, 3000, 1, "Kim", 2, "Jeonbuk"),
     BuildPlay("Duel", "Unsuccessful", 6000, 3000, 1, "Kim", 2, "Jeonbuk"),
     BuildPlay("Shot", "Goal", 9000, 3000, 2, "Lee", 2, "Jeonbuk"),
     BuildPlay("Pass", "Unsuccessful", 2000, 3000, 2, "Lee", 2, "Jeonbuk"),
     BuildPlay("Pass Received", "Successful", 6000, 3000, 2, "Lee", 2, "Jeonbuk")}

BuildEvents ==
    {Event(gp, 0, p) @@ [start_x |-> p.start_x, start_y |-> p.start_y] :
        gp \in GamePeriods, p \in BuildPlays}

\* The preprocessed log: action ids and flags as in WithActionIds, and the
\* coordinate columns.
WithCoordinates(log) ==
    [i \in 1..Len(log) |->
        WithActionIds(log)[i] @@ [start_x |-> log[i].start_x, start_y |-> log[i].start_y]]

InitBuild ==
    /\ pc = "build_aggregate"
    /\ \E n \in 0..MaxEvents : \E l \in [1..n -> BuildEvents] :
          IsSorted(l) /\ events = WithCoordinates(l)
    /\ award_configs = AWARDS
    /\ player_stats = NoTable
    /\ panic_m = NoTable
    /\ clearance_panic = NoTable
    /\ panic_cols = NoTable
    /\ second_half_drop = NoTable
    /\ def_third_turnover = NoTable
    /\ attack_stats = NoTable
    /\ stats = NoTable
    /\ award_scores = NoTable
    /\ award_cols = NoTable
    /\ zone_in = NoTable
    /\ zone_out = NoTable
    /\ raw = NoTable
    /\ preprocessed = NoTable
    /\ preprocessed_again = NoTable
    /\ zone_fallback = NoTable
    /\ zone_impl = NoTable
    /\ events_with_zones = NoTable
    /\ team_zone_df = NoTable
    /\ player_zone_activity = NoTable
    /\ league_avg = NoTable
    /\ leaderboard = NoTable
    /\ saved = NoTable
    /\ possession_out = NoTable
    /\ possession_in = NoTable
    /\ run = NoTable
    /\ disk = NoTable

\* The variables no step of the pipeline touches.
BuildUnchanged ==
    UNCHANGED <<events, award_configs, zone_in, zone_out, raw, preprocessed,
                preprocessed_again, zone_fallback, zone_impl, events_with_zones,
                team_zone_df, player_zone_activity, league_avg, leaderboard, saved,
                run, disk,
                   possession_in,
                   possession_out>>

\* player_stats = aggregate_player_stats(preprocessed)
BuildAggregate ==
    /\ pc = "build_aggregate"
    /\ player_stats' = aggregate_player_stats(events)
    /\ pc' = "build_panic"
    /\ UNCHANGED <<panic_m, clearance_panic, panic_cols, second_half_drop,
                   def_third_turnover, attack_stats, stats, award_scores, award_cols,
                   possession_in,
                   possession_out>>
    /\ BuildUnchanged

\* clearance_panic = calculate_clearance_panic(preprocessed)
BuildPanic ==
    /\ pc = "build_panic"
    /\ \E ord \in SortOrders(events) : \E m \in {PanicMerge(events, ord)} :
          /\ panic_m' = m
          /\ clearance_panic' = PanicScore(m)
          /\ panic_cols' = clearance_panic_columns(events, m)
    /\ pc' = "build_drop"
    /\ UNCHANGED <<player_stats, second_half_drop, def_third_turnover, attack_stats,
                   stats, award_scores, award_cols,
                   possession_in,
                   possession_out>>
    /\ BuildUnchanged

\* second_half_drop = calculate_second_half_drop(preprocessed)
BuildSecondHalfDrop ==
    /\ pc = "build_drop"
    /\ second_half_drop' = calculate_second_half_drop(events)
    /\ pc' = "build_turnover"
    /\ UNCHANGED <<player_stats, panic_m, clearance_panic, panic_cols,
                   def_third_turnover, attack_stats, stats, award_scores, award_cols,
                   possession_in,
                   possession_out>>
    /\ BuildUnchanged

\* def_third_turnover = calculate_def_third_turnover(preprocessed)
BuildTurnover ==
    /\ pc = "build_turnover"
    /\ def_third_turnover' = calculate_def_third_turnover(events)
    /\ pc' = "build_attack"
    /\ UNCHANGED <<player_stats, panic_m, clearance_panic, panic_cols,
                   second_half_drop, attack_stats, stats, award_scores, award_cols,
                   possession_in,
                   possession_out>>
    /\ BuildUnchanged

\* attack_stats = aggregate_attack_stats(preprocessed, match_info)
BuildAttack ==
    /\ pc = "build_attack"
    /\ attack_stats' = aggregate_attack_stats(events)
    /\ pc' = "build_metrics"
    /\ UNCHANGED <<player_stats, panic_m, clearance_panic, panic_cols,
                   second_half_drop, def_third_turnover, stats, award_scores,
                   award_cols,
                   possession_in,
                   possession_out>>
    /\ BuildUnchanged

\* player_stats_with_metrics = calculate_metrics(player_stats, ...)
BuildMetrics ==
    /\ pc = "build_metrics"
    /\ stats' = calculate_metrics_with(player_stats, clearance_panic, second_half_drop,
                                       def_third_turnover, attack_stats)
    /\ pc' = "build_scores"
    /\ UNCHANGED <<player_stats, panic_m, clearance_panic, panic_cols,
                   second_half_drop, def_third_turnover, attack_stats, award_scores,
                   award_cols,
                   possession_in,
                   possession_out>>
    /\ BuildUnchanged

\* award_scores = compute_award_scores(player_stats_with_metrics)
BuildAwardScores ==
    /\ pc = "build_scores"
    /\ \E out \in {compute_award_scores(stats, award_configs)} :
          /\ award_scores' = out
          /\ award_cols' = IF out = {} THEN EmptyAwardColumns ELSE AwardFrameColumns
    /\ pc' = "build_done"
    /\ UNCHANGED <<player_stats, panic_m, clearance_panic, panic_cols,
                   second_half_drop, def_third_turnover, attack_stats, stats,
                   possession_in,
                   possession_out>>
    /\ BuildUnchanged

NextBuild ==
    \/ BuildAggregate \/ BuildPanic \/ BuildSecondHalfDrop \/ BuildTurnover
    \/ BuildAttack \/ BuildMetrics \/ BuildAwardScores

SpecBuild == InitBuild /\ [][NextBuild]_vars

(***************************************************************************)
(* Build pipeline: the minimum-attempts threshold of every award           *)
(***************************************************************************)

\* The count of the award's attempt column for the player of an output row:
\* read from the metrics table when the column is there, from attack_stats
\* (the player's largest count over his rows, 0 without a row) otherwise.
AttemptCount(a, x) ==
    LET col == attempt_cols[a.metric]
    IN  IF col \in stats.cols
        THEN (CHOOSE r \in stats.rows : <<r.key, r.right>> = x.source).cells[col]
        ELSE LET mine == {q \in attack_stats.rows : q.key[1] = x.player_id}
             IN  IF col \notin attack_stats.cols \/ mine = {} THEN 0
                 ELSE CHOOSE c \in {q.cells[col] : q \in mine} :
                          \A q \in mine : q.cells[col] <= c

\* The awards of the configuration with the given metrics.
AwardsOn(metrics) ==
    {award_configs[n] : n \in {k \in 1..Len(award_configs) :
                                  award_configs[k].metric \in metrics}}

\* C24: in the pipeline of build_artifacts no player whose count in an
\* award's attempt column is below min_attempts has a row for that award, the
\* attack awards included.
C24_MinAttemptsEnforced ==
    pc = "build_done" =>
        \A a \in AwardsOn(DOMAIN attempt_cols) : \A x \in RowsOf(a) :
            AttemptCount(a, x) >= a.min_attempts

(***************************************************************************)
(* Build pipeline: the rows of the metrics table                           *)
(***************************************************************************)

\* The metrics table has been computed.
MetricsComputed == pc \in {"build_scores", "build_done"}

\* The rows of the metrics table that come from one row of player_stats.
StatsRowsOf(key) == {r \in stats.rows : r.key = key}

\* C25: calculate_metrics returns exactly one row for each row of player_stats;
\* the merges on player_id neither duplicate nor drop a row, also when a
\* player_id has several (name, team) pairs in a merged table.
C25_OneRowPerStatsRow ==
    MetricsComputed =>
        /\ \A p \in player_stats.rows : Cardinality(StatsRowsOf(p.key)) = 1
        /\ \A r \in stats.rows : \E p \in player_stats.rows : p.key = r.key

\* Event e feeds an award metric: it belongs to a category of
\* aggregate_player_stats or aggregate_attack_stats, or it is a pass or carry
\* in the defensive third.
FeedsAMetric(e) ==
    \/ \E n \in 1..Len(Categories) : InCategory(Categories[n].name, e)
    \/ \E n \in 1..Len(AttackCategories) : InAttackCategory(AttackCategories[n].name, e)
    \/ e.type_name \in {"Pass", "Carry"} /\ e.in_def_third

\* C26: every player with at least one event feeding an award metric has a
\* row in the metrics table, a player with attack-side events or
\* defensive-third passes only included.
C26_EveryContributorHasARow ==
    MetricsComputed =>
        \A i \in 1..Len(events) :
            FeedsAMetric(events[i]) =>
                \E r \in stats.rows : r.key[1] = events[i].player_id

(***************************************************************************)
(* Build pipeline: clearance counts of the two tables                      *)
(***************************************************************************)

\* Both calculate_clearance_panic and aggregate_player_stats have run.
PanicAndAggregateDone == pc \notin {"build_aggregate", "build_panic"}

\* The sum of the clearance column over rows of the panic table.
RECURSIVE SumClearance(_)
SumClearance(rows) ==
    IF rows = {} THEN 0
    ELSE LET r == CHOOSE x \in rows : TRUE
         IN  r.clearance + SumClearance(rows \ {r})

\* The sum of the clearance_attempt column over rows of player_stats.
RECURSIVE SumClearanceAttempt(_)
SumClearanceAttempt(rows) ==
    IF rows = {} THEN 0
    ELSE LET r == CHOOSE x \in rows : TRUE
         IN  r.cells["clearance_attempt"] + SumClearanceAttempt(rows \ {r})

\* C27: for every player 0 <= concede_shot10 <= clearance <= clearance_attempt,
\* each clearance event has at most one merge row (so it adds at most 1 to
\* clearance and to concede_shot10) also when shots share a timestamp, and
\* clearance_panic_rate lies in [0, 1].
C27_PanicCountsBounded ==
    /\ PanicAndAggregateDone =>
          /\ \A r \in clearance_panic :
                /\ 0 <= r.concede_shot10
                /\ r.concede_shot10 <= r.clearance
                /\ \E p \in player_stats.rows :
                      /\ p.key = <<r.player_id, r.player_name_ko, r.team_name_ko>>
                      /\ r.clearance <= p.cells["clearance_attempt"]
          /\ \A id \in {r.player_id : r \in clearance_panic} :
                SumClearance({r \in clearance_panic : r.player_id = id})
                    <= SumClearanceAttempt({p \in player_stats.rows : p.key[1] = id})
          /\ \A i \in ClrIdx(events) :
                Cardinality({x \in panic_m :
                                x.row.action_id_clr = events[i].action_id}) <= 1
    /\ (MetricsComputed /\ "clearance_panic_rate" \in stats.cols) =>
          \A r \in stats.rows :
              LET v == r.cells["clearance_panic_rate"]
              IN  v[2] > 0 /\ 0 <= v[1] /\ v[1] <= v[2]

\* A clearance with two shots at its own timestamp, one of them by the other
\* team: it is counted once in clearance and at most once in concede_shot10.
C27_Witness ==
    /\ pc = "build_done"
    /\ \E i \in ClrIdx(events) : \E j, k \in ShotIdx(events) :
          /\ j # k
          /\ GroupOf(events, j) = GroupOf(events, i) /\ GroupOf(events, k) = GroupOf(events, i)
          /\ events[j].time_seconds = events[i].time_seconds
          /\ events[k].time_seconds = events[i].time_seconds
          /\ events[j].team_id # events[i].team_id
    /\ \E r \in clearance_panic : r.clearance = 1 /\ r.concede_shot10 = 1
    /\ \E r \in stats.rows : r.cells["clearance_panic_rate"] = <<1, 1>>

(***************************************************************************)
(* Aggregator: the counts of a row                                         *)
(***************************************************************************)

\* The sum of a column over rows of a frame.
RECURSIVE SumColumn(_, _)
SumColumn(rows, c) ==
    IF rows = {} THEN 0
    ELSE LET r == CHOOSE x \in rows : TRUE
         IN  r.cells[c] + SumColumn(rows \ {r}, c)

\* The fail column and the attempt column it is compared with.
FailPairs ==
    {<<"tackle_fail", "tackle_attempt">>, <<"duel_fail", "duel_attempt">>,
     <<"block_fail", "block_attempt">>,
     <<"interception_fail", "interception_attempt">>,
     <<"danger_foul_count", "foul_count">>}

\* C28: in every row of aggregate_player_stats the counts are non-negative
\* integers, every fail count is at most its attempt count (danger fouls at
\* most fouls), and each count column sums over the rows to the number of
\* events of its category that have a player identity.
C28_CountsConsistent ==
    pc = "agg_done" =>
        /\ \A r \in player_stats.rows : \A c \in player_stats.cols : r.cells[c] \in Nat
        /\ \A r \in player_stats.rows : \A fa \in FailPairs :
              fa[1] \in player_stats.cols =>
                  /\ fa[2] \in player_stats.cols
                  /\ r.cells[fa[1]] <= r.cells[fa[2]]
        /\ \A n \in 1..Len(Categories) :
              Categories[n].cols[1][1] \in player_stats.cols =>
                  SumColumn(player_stats.rows, Categories[n].cols[1][1]) =
                      Cardinality({i \in 1..Len(events) :
                                      /\ InCategory(Categories[n].name, events[i])
                                      /\ events[i].player_id # NA
                                      /\ events[i].player_name_ko # "<NA>"
                                      /\ events[i].team_name_ko # "<NA>"})

\* A log of three tackles, one of them without a player: the table has a row
\* with a lost tackle and a row with a won one, and two tackles in total.
C28_Witness ==
    /\ pc = "agg_done"
    /\ \E i \in 1..Len(events) : events[i].type_name = "Tackle" /\ events[i].player_id = NA
    /\ \E r \in player_stats.rows :
          r.cells["tackle_attempt"] = 1 /\ r.cells["tackle_fail"] = 1
    /\ \E r \in player_stats.rows :
          r.cells["tackle_attempt"] = 1 /\ r.cells["tackle_fail"] = 0
    /\ SumColumn(player_stats.rows, "tackle_attempt") = 2

(***************************************************************************)
(* Ranking engine: rank and percentile against the score order             *)
(***************************************************************************)

\* C29: within one award's rows a strictly higher score has a smaller rank
\* number and a larger percentile, equal scores have equal rank and equal
\* percentile, and some row has rank 1.
C29_RankAndPercentileFollowScore ==
    pc = "award_done" =>
        \A a \in ScoredAwards :
            LET R == RowsOf(a)
            IN  /\ \A x, y \in R :
                      /\ FracLess(y.score, x.score) =>
                            /\ x.rank < y.rank
                            /\ FracLess(y.percentile, x.percentile)
                      /\ x.score = y.score =>
                            /\ x.rank = y.rank
                            /\ x.percentile[1] * y.percentile[2]
                                   = y.percentile[1] * x.percentile[2]
                /\ R # {} => \E x \in R : x.rank = 1

\* C29 witness: three rows of one award, two tied below the third; the top
\* row has rank 1 and the larger percentile, the tied rows share rank 2 and
\* one percentile.
C29_Witness ==
    /\ pc = "award_done"
    /\ \E x, y, z \in award_scores :
          /\ x.award_id = y.award_id /\ y.award_id = z.award_id
          /\ x.player_id # y.player_id
          /\ x.score = y.score /\ FracLess(x.score, z.score)
          /\ z.rank = 1 /\ x.rank = 2 /\ y.rank = 2
          /\ x.percentile = y.percentile
          /\ FracLess(x.percentile, z.percentile)

(***************************************************************************)
(* Possessions: extract_possessions of feature_engineering.py              *)
(***************************************************************************)

\* Default of the parameter max_gap_seconds.
max_gap_seconds == 5

\* Most events of one frame handed to extract_possessions.
MaxPossessionEvents == 4

\* One event: the columns extract_possessions reads.
PossessionEvent(game, period, time, team) ==
    [game_id |-> game, period_id |-> period, time_seconds |-> time, team_id |-> team]

\* Events of two games and two periods, with gaps below, at and above
\* max_gap_seconds, an event without team and an event without period.
PossessionPlays ==
    {PossessionEvent(1, 1, 0, 1), PossessionEvent(1, 1, 5, 1),
     PossessionEvent(1, 1, 11, 1), PossessionEvent(1, 1, 7, 2),
     PossessionEvent(1, 2, 3, 1), PossessionEvent(1, 2, 4, NA),
     PossessionEvent(2, 1, 6, 1), PossessionEvent(1, NA, 2, 1)}

\* The frame's rows with their index label.
WithIndex(l) ==
    [i \in 1..Len(l) |->
        [idx |-> i, game_id |-> l[i].game_id, period_id |-> l[i].period_id,
         time_seconds |-> l[i].time_seconds, team_id |-> l[i].team_id]]

\* Row a sorts strictly before row b under sort_values(by=[game_col, time_col]).
PossessionKeyLess(a, b) ==
    \/ a.game_id < b.game_id
    \/ a.game_id = b.game_id /\ a.time_seconds < b.time_seconds

\* Position of row i after the sort; a sort on two columns is stable.
PossessionSortPos(df, i) ==
    1 + Cardinality({j \in 1..Len(df) : PossessionKeyLess(df[j], df[i])})
      + Cardinality({j \in 1..Len(df) :
                        /\ j < i
                        /\ ~PossessionKeyLess(df[j], df[i])
                        /\ ~PossessionKeyLess(df[i], df[j])})

\* events.copy().sort_values(by=[game_col, time_col])
PossessionSort(df) ==
    [k \in 1..Len(df) |-> df[CHOOSE i \in 1..Len(df) : PossessionSortPos(df, i) = k]]

\* by = [game_col, "period_id"]: the key of a row's group.
GroupKey(e) == <<e.game_id, e.period_id>>

\* df.groupby(by): the keys of the groups; rows with a missing key value
\* belong to no group.
GroupKeys(df) ==
    {GroupKey(df[i]) : i \in {j \in 1..Len(df) : df[j].game_id # NA /\ df[j].period_id # NA}}

\* The positions of the rows of one group, in the order of the frame.
RECURSIVE GroupPositions(_, _, _)
GroupPositions(df, key, from) ==
    IF from > Len(df) THEN <<>>
    ELSE IF GroupKey(df[from]) = key
         THEN <<from>> \o GroupPositions(df, key, from + 1)
         ELSE GroupPositions(df, key, from + 1)

\* A gap equal to max_gap_seconds starts a new possession.
StartsNewPossessionAtEqualGap(prev, cur) ==
    \/ prev.team_id = NA
    \/ cur.team_id = NA
    \/ prev.team_id # cur.team_id
    \/ (cur.time_seconds - prev.time_seconds) >= max_gap_seconds

\* After the first row of a group: prev_team != current_team, which is true
\* as well when either is missing, or current_time - prev_time > max_gap_seconds.
StartsNewPossession(prev, cur) ==
    \/ prev.team_id = NA
    \/ cur.team_id = NA
    \/ prev.team_id # cur.team_id
    \/ (cur.time_seconds - prev.time_seconds) > max_gap_seconds

\* The value of possession_id after each row of a group: 0 before the first
\* row, whose prev_team is None.
PossessionNumbers(df, pos) ==
    LET number[k \in 0..Len(pos)] ==
            IF k = 0 THEN 0
            ELSE IF k = 1 THEN 1
            ELSE number[k - 1]
                   + (IF StartsNewPossession(df[pos[k - 1]], df[pos[k]]) THEN 1 ELSE 0)
    IN  number

\* possession_id of a row no group reached.
NoPossession == <<>>

\* f"{group_key}_{possession_id}"
PossessionId(key, n) == <<key, n>>

extract_possessions(frame) ==
    LET df == PossessionSort(frame)
        IdOf(i) ==
            IF GroupKey(df[i]) \notin GroupKeys(df) THEN NoPossession
            ELSE LET pos == GroupPositions(df, GroupKey(df[i]), 1)
                     k == CHOOSE n \in 1..Len(pos) : pos[n] = i
                 IN  PossessionId(GroupKey(df[i]), PossessionNumbers(df, pos)[k])
    IN  [i \in 1..Len(df) |->
            [idx |-> df[i].idx, game_id |-> df[i].game_id, period_id |-> df[i].period_id,
             time_seconds |-> df[i].time_seconds, team_id |-> df[i].team_id,
             possession_id |-> IdOf(i)]]

InitPossession ==
    /\ pc = "possession_start"
    /\ \E n \in 0..MaxPossessionEvents : \E l \in [1..n -> PossessionPlays] :
          possession_in = WithIndex(l)
    /\ possession_out = NoTable
    /\ events = NoTable
    /\ player_stats = NoTable
    /\ panic_m = NoTable
    /\ clearance_panic = NoTable
    /\ zone_in = NoTable
    /\ zone_out = NoTable
    /\ stats = NoTable
    /\ award_configs = NoTable
    /\ award_scores = NoTable
    /\ raw = NoTable
    /\ preprocessed = NoTable
    /\ preprocessed_again = NoTable
    /\ zone_fallback = NoTable
    /\ zone_impl = NoTable
    /\ events_with_zones = NoTable
    /\ team_zone_df = NoTable
    /\ player_zone_activity = NoTable
    /\ league_avg = NoTable
    /\ second_half_drop = NoTable
    /\ panic_cols = NoTable
    /\ award_cols = NoTable
    /\ leaderboard = NoTable
    /\ saved = NoTable
    /\ run = NoTable
    /\ disk = NoTable
    /\ attack_stats = NoTable
    /\ def_third_turnover = NoTable

ExtractPossessions ==
    /\ pc = "possession_start"
    /\ possession_out' = extract_possessions(possession_in)
    /\ pc' = "possession_done"
    /\ UNCHANGED <<possession_in, zone_in, zone_out, events, panic_m, clearance_panic,
                   player_stats, stats, award_configs, award_scores, raw, preprocessed,
                   preprocessed_again, zone_fallback, zone_impl, events_with_zones,
                   team_zone_df, player_zone_activity, league_avg, second_half_drop,
                   panic_cols, award_cols, leaderboard, saved, run, disk,
                   def_third_turnover, attack_stats>>

NextPossession == ExtractPossessions

SpecPossession == InitPossession /\ [][NextPossession]_vars

\* The rows of one group of the returned frame, in scan order.
GroupRows(key) ==
    LET pos == GroupPositions(possession_out, key, 1)
    IN  [k \in 1..Len(pos) |-> possession_out[pos[k]]]

\* Two events are by the same team: both have a team and it is the same one.
SameTeam(a, b) == a.team_id # NA /\ b.team_id # NA /\ a.team_id = b.team_id

\* C30: within each (game, period) group of the frame extract_possessions
\* returns, the rows are in time order, two consecutive rows have the same
\* possession_id exactly when they are by the same team and at most
\* max_gap_seconds apart, the first row has possession 1 of its group, the
\* number rises by exactly 1 at each break, and every row has an id.
C30_PossessionBreaks ==
    pc = "possession_done" =>
        \A key \in GroupKeys(possession_out) :
            LET g == GroupRows(key)
            IN  /\ Len(g) >= 1
                /\ g[1].possession_id = <<key, 1>>
                /\ \A k \in 1..Len(g) :
                      /\ g[k].possession_id # NoPossession
                      /\ g[k].possession_id[1] = key
                /\ \A k \in 2..Len(g) :
                      LET gap == g[k].time_seconds - g[k - 1].time_seconds
                          same == SameTeam(g[k - 1], g[k]) /\ gap <= max_gap_seconds
                      IN  /\ gap >= 0
                          /\ (g[k].possession_id = g[k - 1].possession_id) <=> same
                          /\ g[k].possession_id[2] =
                                g[k - 1].possession_id[2] + (IF same THEN 0 ELSE 1)

\* C30 witness: a group of three events of one team at 0, 5 and 11 seconds,
\* handed over out of time order: the first two share possession 1 and the
\* third, 6 seconds later, has possession 2.
C30_Witness ==
    /\ pc = "possession_done"
    /\ Len(possession_in) >= 3
    /\ possession_in[1].time_seconds = 11
    /\ \E i, j, k \in 1..Len(possession_out) :
          /\ i < j /\ j < k
          /\ possession_out[i].time_seconds = 0
          /\ possession_out[j].time_seconds = 5
          /\ possession_out[k].time_seconds = 11
          /\ possession_out[i].possession_id = <<(<<1, 1>>), 1>>
          /\ possession_out[j].possession_id = <<(<<1, 1>>), 1>>
          /\ possession_out[k].possession_id = <<(<<1, 1>>), 2>>

====
